---- MODULE Spec2Model ----
(***************************************************************************)
(* binlogx: the producer / sharded-consumer event pipeline                 *)
(* (pkg/processor), the route filter and worker-id hash (pkg/filter) and   *)
(* the range matcher (pkg/util) it uses; the column-name cache (pkg/cache), *)
(* the SQL generator with the sql and rollback-sql handlers (cmd), the     *)
(* file and MySQL event sources (pkg/source), the pattern compiler of the  *)
(* range matcher, the monitor counters (pkg/monitor, cmd/stat), the        *)
(* checkpoint manager (pkg/checkpoint) and the interactive parse with its  *)
(* resume (cmd/parse), each as a specification of its own.                 *)
(*                                                                         *)
(* Strings are sequences of one-character strings, so that the hash and    *)
(* the matcher can walk them character by character.                       *)
(***************************************************************************)
EXTENDS Integers, Sequences, FiniteSets, TLC

(***************************************************************************)
(* Bounds of the model.                                                    *)
(***************************************************************************)
\* number of Read calls the producer may make on the source
MaxReads == 2
\* capacity of every worker channel (10000 in the program, scaled down)
defaultBufferSize == 1
\* width of the machine integer of the hash (64 in the program, scaled down)
IntBits == 8
\* number of GetColumnName calls made on the cache
MaxLookups == 3
\* the oldest age of a not-found entry that is told apart, in ticks of 30
\* seconds
MaxAge == 4
\* number of Clear calls made on the cache
MaxClears == 1
\* the time a not-found entry is valid: 1 minute, in ticks
notFoundCacheTTL == 2

(***************************************************************************)
(* Characters and strings.                                                 *)
(***************************************************************************)
LowerLetters ==
  <<"a","b","c","d","e","f","g","h","i","j","k","l","m",
    "n","o","p","q","r","s","t","u","v","w","x","y","z">>

UpperLetters ==
  <<"A","B","C","D","E","F","G","H","I","J","K","L","M",
    "N","O","P","Q","R","S","T","U","V","W","X","Y","Z">>

Digits == <<"0","1","2","3","4","5","6","7","8","9">>

IndexOf(seq, c) == CHOOSE i \in 1..Len(seq) : seq[i] = c

InSeq(seq, c) == \E i \in 1..Len(seq) : seq[i] = c

\* int(ch): the Unicode code point of a character
Ord(c) ==
  IF InSeq(LowerLetters, c) THEN 96 + IndexOf(LowerLetters, c)
  ELSE IF InSeq(UpperLetters, c) THEN 64 + IndexOf(UpperLetters, c)
  ELSE IF InSeq(Digits, c) THEN 47 + IndexOf(Digits, c)
  ELSE IF c = ":" THEN 58
  ELSE IF c = "." THEN 46
  ELSE IF c = "_" THEN 95
  ELSE 63

\* the regexp class [A-Za-z0-9_]
IsWordChar(c) ==
  InSeq(LowerLetters, c) \/ InSeq(UpperLetters, c) \/ InSeq(Digits, c) \/ c = "_"

\* strconv.Itoa / the %v verb on a non-negative integer
RECURSIVE Itoa(_)
Itoa(n) ==
  IF n < 10 THEN <<Digits[n + 1]>>
  ELSE Itoa(n \div 10) \o <<Digits[(n % 10) + 1]>>

(***************************************************************************)
(* Column values and events (pkg/models).                                  *)
(***************************************************************************)
IntV(n) == [kind |-> "int", int |-> n, str |-> <<>>]

StrV(s) == [kind |-> "string", int |-> 0, str |-> s]

\* fmt.Sprintf("%v", v)
Sprint(v) == IF v.kind = "int" THEN Itoa(v.int) ELSE v.str

EmptyMap == [c \in {} |-> IntV(0)]

Event(db, table, action, before, after) ==
  [Database |-> db, Table |-> table, Action |-> action,
   BeforeValues |-> before, AfterValues |-> after]

(***************************************************************************)
(* Machine integers of IntBits bits, two's complement.                     *)
(***************************************************************************)
TwoTo(n) == 2 ^ n

MinInt == 0 - TwoTo(IntBits - 1)

MaxInt == TwoTo(IntBits - 1) - 1

Wrap(x) ==
  LET m == x % TwoTo(IntBits)
  IN  IF m >= TwoTo(IntBits - 1) THEN m - TwoTo(IntBits) ELSE m

\* Go's % : truncated division, the sign follows the dividend
GoRem(a, b) == IF a >= 0 THEN a % b ELSE 0 - ((0 - a) % b)

(***************************************************************************)
(* RouteFilter.GetWorkerID                                                 *)
(***************************************************************************)
RECURSIVE HashFold(_, _, _)
HashFold(key, i, hash) ==
  IF i > Len(key) THEN hash
  ELSE HashFold(key, i + 1, Wrap(Wrap(Wrap(hash * 32) - hash) + Ord(key[i])))

HashAbs(hash) == IF hash < 0 THEN Wrap(0 - hash) ELSE hash

GetWorkerID(table, primaryKey, n) ==
  LET key == table \o <<":">> \o primaryKey
  IN  GoRem(HashAbs(HashFold(key, 1, 0)), n)

(***************************************************************************)
(* RangeMatcher: a compiled pattern is the sequence of the regexp pieces   *)
(* parseToRegex writes: a quoted literal, the class [A-Za-z0-9_]+, or an   *)
(* alternation of decimal numbers.  The regexp is not anchored.            *)
(***************************************************************************)
Lit(c) == [t |-> "lit", c |-> c, nums |-> {}]

Star == [t |-> "class", c |-> "", nums |-> {}]

Alt(nums) == [t |-> "alt", c |-> "", nums |-> nums]

HasPrefixAt(s, i, p) ==
  /\ i + Len(p) - 1 <= Len(s)
  /\ \A k \in 1..Len(p) : s[i + k - 1] = p[k]

\* the pieces re[k..] match a prefix of s[i..]
RECURSIVE ReMatchHere(_, _, _, _)
ReMatchHere(re, k, s, i) ==
  IF k > Len(re) THEN TRUE
  ELSE IF re[k].t = "lit"
    THEN i <= Len(s) /\ s[i] = re[k].c /\ ReMatchHere(re, k + 1, s, i + 1)
  ELSE IF re[k].t = "class"
    THEN \E j \in i..Len(s) :
           /\ \A p \in i..j : IsWordChar(s[p])
           /\ ReMatchHere(re, k + 1, s, j + 1)
  ELSE \E n \in re[k].nums :
           HasPrefixAt(s, i, n) /\ ReMatchHere(re, k + 1, s, i + Len(n))

\* RangeMatcher.Match: regexp.MatchString, a match anywhere in the input
RangeMatcherMatch(re, input) ==
  \E i \in 1..(Len(input) + 1) : ReMatchHere(re, 1, input, i)

\* RouteFilter.matchDatabase
matchDatabase(matchers, schema, table) ==
  IF Len(matchers) > 0
  THEN LET input == schema \o <<".">> \o table
       IN  \E m \in 1..Len(matchers) : RangeMatcherMatch(matchers[m], input)
  ELSE TRUE

\* RouteFilter.Match
Match(matchers, event) == matchDatabase(matchers, event.Database, event.Table)

(***************************************************************************)
(* getEventKey: the table, followed by ":" and the value the range over    *)
(* the AfterValues map yields first.  The iteration order of a Go map is   *)
(* unspecified, so every value of the map is a possible outcome.           *)
(***************************************************************************)
getEventKey(event) ==
  IF DOMAIN event.AfterValues = {}
  THEN {event.Table}
  ELSE {event.Table \o <<":">> \o Sprint(event.AfterValues[c]) :
          c \in DOMAIN event.AfterValues}

(***************************************************************************)
(* The inputs: the events a source may return and the filters a command    *)
(* may configure.                                                          *)
(***************************************************************************)
RowPk1 == ("col_0" :> IntV(1)) @@ ("col_1" :> IntV(2))

EventPool ==
  { Event(<<"d">>, <<"s">>, "INSERT", EmptyMap, RowPk1),
    Event(<<"d">>, <<"s">>, "DELETE", RowPk1, EmptyMap),
    Event(<<"d">>, <<"c">>, "INSERT", EmptyMap, "col_0" :> StrV(<<"n">>)) }

\* the worker counts a command may pass to NewEventProcessor
WorkerCounts == {1, 2, 3}

MaxWorkerCount == CHOOSE n \in WorkerCounts : \A m \in WorkerCounts : m <= n

\* the handlers a command may register with AddHandler, in this order
HandlerNames == <<"h1", "h2">>

FilterConfigs ==
  { <<>>,
    << <<Lit("d"), Lit("."), Lit("s")>> >> }

(***************************************************************************)
(* EventProcessor.                                                         *)
(***************************************************************************)
VARIABLES
  workerCount,      \* ep.workerCount
  rangeMatcher,     \* ep.filter.rangeMatcher
  handlers,         \* ep.handlers, a sequence of handler names
  started,          \* Start has been called
  cancelled,        \* ep.ctx is done
  crashed,          \* a goroutine panicked: the process is gone
  srcReads,         \* number of Read calls made on the data source
  srcEnd,           \* how the source ended: "", "EOF" (end of stream) or "err"
  events,           \* the events Read returned, in the order of the reads
  accepted,         \* indices (in events) of the events the filter matched
  routed,           \* index -> the key and the worker id computed for it
  pcProd,           \* producer: "idle", "loop", "push", "closing", "done"
  pending,          \* index of the event the producer is sending
  closeIdx,         \* next channel the deferred close loop closes
  workerChannels,   \* worker id -> queue of event indices
  closed,           \* worker id -> the channel is closed
  pcCons,           \* worker id -> "idle", "recv", "handle", "logerr", "done"
  curEvent,         \* worker id -> index of the event being handled
  curHandler,       \* worker id -> position in handlers of the next Handle
  handled,          \* handler -> index -> number of Handle calls with it
  pcWait,           \* Wait: "idle", "flush", "returned"
  flushIdx,         \* position in handlers of the next Flush
  flushCount,       \* handler -> number of Flush calls
  waitErr,          \* Wait returned an error
  queuedAtStop,     \* the indices the channels held when Stop was called
  afterCancel       \* what the workers have done with those after Stop:
                    \* "handled" (took one) and / or "abandoned" (returned
                    \* while its channel still held one)

(***************************************************************************)
(* MetaCache (pkg/cache).  Time is counted in ticks of 30 seconds.         *)
(***************************************************************************)
VARIABLES
  mcDb,             \* mc.db != nil
  maxSize,          \* mc.maxSize
  cache,            \* mc.cache: the keys that have a positive entry
  notFoundCache,    \* mc.notFoundCache: key -> time.Since(timestamp) of its
                    \* entry in ticks, -1 when absent
  sf,               \* mc.sf: key -> the goroutine running the call, 0 if none
  pcGet,            \* goroutine -> position in GetColumnName / GetTableMeta
  keyGet,           \* goroutine -> the key of its request, "" if none
  resGet,           \* goroutine -> "", "ok" or "err": what GetTableMeta returns
  lookups,          \* number of GetColumnName calls begun
  clears,           \* number of Clear calls made
  panicked,         \* a goroutine panicked: the process is gone
  queryCount,       \* key -> number of catalog queries issued
  queryClears,      \* key -> clears at its last catalog query, -1 if none
  beganClears,      \* goroutine -> value of clears when its request began
  lastAccess,       \* the key whose positive entry was read or written last
  evicted           \* the overflow branch of the positive write has run

pipelineVars ==
  <<workerCount, rangeMatcher, handlers, started, cancelled, crashed,
    srcReads, srcEnd, events, accepted, routed, pcProd, pending, closeIdx,
    workerChannels, closed, pcCons, curEvent, curHandler, handled,
    pcWait, flushIdx, flushCount, waitErr, queuedAtStop, afterCancel>>

cacheVars ==
  <<mcDb, maxSize, cache, notFoundCache, sf, pcGet, keyGet, resGet,
    lookups, clears, panicked, queryCount, queryClears, beganClears,
    lastAccess, evicted>>

(***************************************************************************)
(* The rollback-sql command and SQLGenerator (cmd, pkg/util).              *)
(***************************************************************************)
VARIABLES
  sqlEvent,         \* the event given to the handler and to the generator
  bulk,             \* rsh.bulk
  hasColumnNames,   \* the helper has a column-name mapping for the table
  pcHandler,        \* the handler: "idle", "new", "handled", "flushed"
  buffer,           \* rsh.buffer
  stdout,           \* the lines printed, in order
  pcGenerator,      \* GenerateRollbackSQL: "idle", "new", "returned"
  rollbackSQL,      \* what GenerateRollbackSQL returned
  pcForward,        \* the sql handler: "idle", "new", "handled"
  forwardSQL        \* the statement the sql handler got from the generator

sqlVars ==
  <<sqlEvent, bulk, hasColumnNames, pcHandler, buffer, stdout, pcGenerator,
    rollbackSQL, pcForward, forwardSQL>>

(***************************************************************************)
(* The data sources (pkg/source) and the producer that reads them.  Times  *)
(* are small integers, 0 being the zero time.                              *)
(***************************************************************************)
VARIABLES
  srcKind,          \* "file" (FileSource), "mysql" (MySQLSource), "" if none
  startTime,        \* the configured start time (fs.startTime)
  endTime,          \* the configured end time (fs.endTime, cfg.EndTime)
  rawStream,        \* the raw events the file or the server has given so far
  pcReader,         \* readEvents: "idle", "parsing", "failing", "eof",
                    \* "errclosed" (errChan is closed), "done" (both are)
  eof,              \* fs.eof, ms.eof
  eventChan,        \* fs.eventChan: indices (in rawStream) of raw events
  errChan,          \* fs.errChan
  tableMap,         \* ms.tableMap: the table ids registered
  currentLogName,   \* ms.currentLogName
  pcSrcProd,        \* producer: "idle", "loop", "read", "select", "wait",
                    \* "closing", "done"
  readEof,          \* the value of fs.eof that Read copied under the lock
  srcTaken,         \* number of raw events Read has taken
  srcReturned,      \* what Read returned: the events, each with the index
                    \* of the raw event it was made from
  srcQueue,         \* the worker channel
  srcClosed,        \* the worker channel is closed
  srcHandled,       \* the events the handler was called with
  pcSrcCons         \* the worker: "idle", "recv", "done"

sourceVars ==
  <<srcKind, startTime, endTime, rawStream, pcReader, eof, eventChan, errChan,
    tableMap, currentLogName, pcSrcProd, readEof, srcTaken, srcReturned,
    srcQueue, srcClosed, srcHandled, pcSrcCons>>

(***************************************************************************)
(* A command that compiles its patterns: NewRangeMatcher, Match and        *)
(* NewRouteFilter (pkg/util, pkg/filter).                                  *)
(***************************************************************************)
VARIABLES
  pattern,              \* the pattern given to NewRangeMatcher
  matcher,              \* what NewRangeMatcher returned
  matchInput,           \* the input given to Match
  matchResult,          \* what Match returned: "", "true" or "false"
  pcMatcher,            \* "idle", "new", "compiled", "failed", "matched"
  schemaTableRegexStr,  \* the patterns given to NewRouteFilter
  routeFilter,          \* what NewRouteFilter returned
  pcCommand             \* the command: "idle", "new", "built", "failed",
                        \* "started"

matcherVars ==
  <<pattern, matcher, matchInput, matchResult, pcMatcher, schemaTableRegexStr,
    routeFilter, pcCommand>>

\* The monitor (pkg/monitor) and the stat handler (cmd/stat.go).
VARIABLES
  slowThreshold,       \* m.slowThreshold
  eventSizeThreshold,  \* m.eventSizeThreshold and sh.eventSizeThreshold
  slowMethodCount,     \* m.slowMethodCount
  largeEventCount,     \* m.largeEventCount
  maxEventSize,        \* m.maxEventSize
  pcMon,               \* where each worker is inside a call of the monitor
  monReg,              \* the counter value a worker has loaded
  monSize,             \* eventSize of the CheckEventSize call of a worker
  monCalls,            \* the calls made: [method, value]
  statLargeEvents,     \* sh.result.LargeEvents
  statHandled          \* the raw-data lengths of the events statHandler handled

monitorVars ==
  <<slowThreshold, eventSizeThreshold, slowMethodCount, largeEventCount,
    maxEventSize, pcMon, monReg, monSize, monCalls, statLargeEvents, statHandled>>

\* The checkpoint managers (pkg/checkpoint) and the checkpoint directory.
VARIABLES
  ckSource,     \* the source each manager was created for
  ckFiles,      \* the checkpoint directory: file path -> [exists, data]
  pcCk,         \* where each manager is: "idle", inside Save ("open",
                \* "write"), or back from Load ("loaded") or Clear ("cleared")
  ckData,       \* the marshalled position a Save is writing
  ckOffset,     \* the offset of the file descriptor of the Save (-1: the
                \* file was removed from the directory since it was opened)
  ckOverlap,    \* a call began or went on while a Save of another manager
                \* was under way
  ckErr,        \* the error the last call on a manager returned ("" is nil)
  loadResult,   \* the position the last Load returned (NoPosition is nil)
  ckOps,        \* number of calls made on each manager
  lastSaved     \* per source, the position of the last successful Save

checkpointVars ==
  <<ckSource, ckFiles, pcCk, ckData, ckOffset, ckOverlap, ckErr, loadResult,
    ckOps, lastSaved>>

\* The parse command over an offline file, run twice (cmd/parse.go).
VARIABLES
  rsWorkers,    \* cfg.Workers
  rsShard,      \* the worker each event of the file is routed to
  rsSession,    \* 1: the first run, 2: the run that resumes
  rsStartPos,   \* fs.startPos of the run
  rsNext,       \* index of the next event the parser reads
  rsChans,      \* the worker channels
  rsEventChan,  \* the channel from the handler to the display
  rsShown,      \* per run, the LogPos of the events displayed, in order
  rsLast,       \* lastEvent.LogPos (0 is nil)
  rsCheckpoint, \* the position in the checkpoint file (0: no file)
  pcDisplay     \* "showing", "done"

resumeVars ==
  <<rsWorkers, rsShard, rsSession, rsStartPos, rsNext, rsChans, rsEventChan,
    rsShown, rsLast, rsCheckpoint, pcDisplay>>

vars ==
  <<pipelineVars, cacheVars, sqlVars, sourceVars, matcherVars, monitorVars,
    checkpointVars, resumeVars>>

\* the variables a step of the pipeline leaves alone
outsidePipeline ==
  <<cacheVars, sqlVars, sourceVars, matcherVars, monitorVars, checkpointVars, resumeVars>>

\* the variables a step of the cache leaves alone
outsideCache ==
  <<pipelineVars, sqlVars, sourceVars, matcherVars, monitorVars, checkpointVars, resumeVars>>

\* the variables a step of the rollback-sql command leaves alone
outsideSql ==
  <<pipelineVars, cacheVars, sourceVars, matcherVars, monitorVars, checkpointVars, resumeVars>>

\* the variables a step of a source or of its producer leaves alone
outsideSource ==
  <<pipelineVars, cacheVars, sqlVars, matcherVars, monitorVars, checkpointVars, resumeVars>>

\* the variables a step of the pattern compiler leaves alone
outsideMatcher ==
  <<pipelineVars, cacheVars, sqlVars, sourceVars, monitorVars, checkpointVars, resumeVars>>

\* the variables a step of the monitor or of the stat handler leaves alone
outsideMonitor ==
  <<pipelineVars, cacheVars, sqlVars, sourceVars, matcherVars, checkpointVars, resumeVars>>

\* the variables a step of a checkpoint manager leaves alone
outsideCheckpoint ==
  <<pipelineVars, cacheVars, sqlVars, sourceVars, matcherVars, monitorVars,
    resumeVars>>

\* the variables a step of the parse command leaves alone
outsideResume ==
  <<pipelineVars, cacheVars, sqlVars, sourceVars, matcherVars, monitorVars,
    checkpointVars>>

\* the workers that share the monitor
MonWorkers == 1..2

\* the checkpoint managers: one per process
CkManagers == 1..2

\* a nil *Position
NoPosition == [File |-> <<>>, Pos |-> 0]

\* no checkpoint manager has been created
CheckpointParked ==
  /\ ckSource = [m \in CkManagers |-> <<>>]
  /\ ckFiles = <<>>
  /\ pcCk = [m \in CkManagers |-> "idle"]
  /\ ckData = [m \in CkManagers |-> <<>>]
  /\ ckOffset = [m \in CkManagers |-> 0]
  /\ ckOverlap = FALSE
  /\ ckErr = [m \in CkManagers |-> ""]
  /\ loadResult = [m \in CkManagers |-> NoPosition]
  /\ ckOps = [m \in CkManagers |-> 0]
  /\ lastSaved = <<>>

\* the parse command has not been run
ResumeParked ==
  /\ rsWorkers = 0
  /\ rsShard = <<>>
  /\ rsSession = 0
  /\ rsStartPos = 0
  /\ rsNext = 0
  /\ rsChans = <<>>
  /\ rsEventChan = <<>>
  /\ rsShown = <<>>
  /\ rsLast = 0
  /\ rsCheckpoint = 0
  /\ pcDisplay = "idle"

\* no monitor has been created
MonitorParked ==
  /\ slowThreshold = 0
  /\ eventSizeThreshold = 0
  /\ slowMethodCount = 0
  /\ largeEventCount = 0
  /\ maxEventSize = 0
  /\ pcMon = [w \in MonWorkers |-> "idle"]
  /\ monReg = [w \in MonWorkers |-> 0]
  /\ monSize = [w \in MonWorkers |-> 0]
  /\ monCalls = <<>>
  /\ statLargeEvents = 0
  /\ statHandled = <<>>

\* no data source has been created
SourceParked ==
  /\ srcKind = ""
  /\ startTime = 0
  /\ endTime = 0
  /\ rawStream = <<>>
  /\ pcReader = "idle"
  /\ eof = FALSE
  /\ eventChan = <<>>
  /\ errChan = <<>>
  /\ tableMap = {}
  /\ currentLogName = ""
  /\ pcSrcProd = "idle"
  /\ readEof = FALSE
  /\ srcTaken = 0
  /\ srcReturned = <<>>
  /\ srcQueue = <<>>
  /\ srcClosed = FALSE
  /\ srcHandled = <<>>
  /\ pcSrcCons = "idle"

\* a pattern that was not compiled
NoMatcher == [err |-> "", re |-> <<>>]

\* no pattern is being compiled
MatcherParked ==
  /\ pattern = <<>>
  /\ matcher = NoMatcher
  /\ matchInput = <<>>
  /\ matchResult = ""
  /\ pcMatcher = "idle"
  /\ schemaTableRegexStr = <<>>
  /\ routeFilter = [err |-> "", rangeMatcher |-> <<>>]
  /\ pcCommand = "idle"

\* no rollback-sql handler and no generator call exist
SqlParked ==
  /\ sqlEvent = Event(<<>>, <<>>, "", EmptyMap, EmptyMap)
  /\ bulk = FALSE
  /\ hasColumnNames = FALSE
  /\ pcHandler = "idle"
  /\ buffer = <<>>
  /\ stdout = <<>>
  /\ pcGenerator = "idle"
  /\ rollbackSQL = <<>>
  /\ pcForward = "idle"
  /\ forwardSQL = <<>>

\* the tables the catalog may know, with their columns
Catalog ==
  ("d.a" :> <<"id", "name">>) @@ ("d.b" :> <<"id">>) @@ ("d.c" :> <<"id">>)

Keys == DOMAIN Catalog

\* the goroutines that call the cache
Getters == {1, 2}

\* no MetaCache has been created
CacheParked ==
  /\ mcDb = FALSE
  /\ maxSize = 0
  /\ cache = {}
  /\ notFoundCache = [k \in Keys |-> -1]
  /\ sf = [k \in Keys |-> 0]
  /\ pcGet = [g \in Getters |-> "idle"]
  /\ keyGet = [g \in Getters |-> ""]
  /\ resGet = [g \in Getters |-> ""]
  /\ lookups = 0
  /\ clears = 0
  /\ panicked = FALSE
  /\ queryCount = [k \in Keys |-> 0]
  /\ queryClears = [k \in Keys |-> -1]
  /\ beganClears = [g \in Getters |-> 0]
  /\ lastAccess = ""
  /\ evicted = FALSE

cfgVars == <<workerCount, rangeMatcher>>

srcVars == <<srcReads, srcEnd, events, accepted, routed>>

prodVars == <<pcProd, pending, closeIdx>>

consVars == <<pcCons, curEvent, curHandler>>

waitVars == <<pcWait, flushIdx, flushCount, waitErr>>

Workers == 0..(workerCount - 1)

Elems(q) == {q[i] : i \in 1..Len(q)}

\* the number of Read calls explored: one more in a single-worker run, so
\* that the worker can hold one event while its channel is full and the
\* producer holds the next
ReadBound == IF workerCount = 1 THEN MaxReads + 1 ELSE MaxReads

HandlerIds == {HandlerNames[i] : i \in 1..Len(HandlerNames)}

\* a send that loses the element
ChanSendDrop(q, e) == q

\* a channel send: the element goes to the back of the buffer
ChanSend(q, e) == Append(q, e)

\* a channel receive takes the element at the front of the buffer
ChanFront(q) == Head(q)

ChanRest(q) == Tail(q)

\* a send that never waits for room
CanSendAlways(q) == TRUE

\* a send can proceed while the buffer holds fewer than its capacity
CanSend(q) == Len(q) < defaultBufferSize

\* every consumer reads one shared channel
SharedChannel(id) == 0

\* consumer(id) reads ep.workerChannels[id], its own channel only
OwnChannel(id) == id

\* NewEventProcessor, with the filter NewRouteFilter built
Init ==
  /\ workerCount \in WorkerCounts
  /\ rangeMatcher \in FilterConfigs
  /\ handlers = <<>>
  /\ started = FALSE
  /\ cancelled = FALSE
  /\ crashed = FALSE
  /\ srcReads = 0
  /\ srcEnd = ""
  /\ events = <<>>
  /\ accepted = {}
  /\ routed = <<>>
  /\ pcProd = "idle"
  /\ pending = 0
  /\ closeIdx = 0
  /\ workerChannels = [w \in 0..(workerCount - 1) |-> <<>>]
  /\ closed = [w \in 0..(workerCount - 1) |-> FALSE]
  /\ pcCons = [w \in 0..(workerCount - 1) |-> "idle"]
  /\ curEvent = [w \in 0..(workerCount - 1) |-> 0]
  /\ curHandler = [w \in 0..(workerCount - 1) |-> 0]
  /\ handled = [h \in HandlerIds |-> [e \in 1..(MaxReads + 1) |-> 0]]
  /\ pcWait = "idle"
  /\ flushIdx = 0
  /\ flushCount = [h \in HandlerIds |-> 0]
  /\ waitErr = FALSE
  /\ queuedAtStop = {}
  /\ afterCancel = {}
  /\ CacheParked
  /\ SqlParked
  /\ SourceParked
  /\ MatcherParked
  /\ MonitorParked
  /\ CheckpointParked
  /\ ResumeParked

\* AddHandler: the handler list is only extended before Start
AddHandler ==
  /\ ~crashed
  /\ ~started
  /\ Len(handlers) < Len(HandlerNames)
  /\ handlers' = Append(handlers, HandlerNames[Len(handlers) + 1])
  /\ UNCHANGED outsidePipeline
  /\ UNCHANGED <<cfgVars, srcVars, prodVars, consVars, waitVars, started,
                 cancelled, crashed, workerChannels, closed, handled,
                 queuedAtStop, afterCancel>>

\* Start: the producer and the workerCount consumers are launched
Start ==
  /\ ~crashed
  /\ ~started
  /\ started' = TRUE
  /\ pcProd' = "loop"
  /\ pcCons' = [w \in Workers |-> "recv"]
  /\ UNCHANGED outsidePipeline
  /\ UNCHANGED <<cfgVars, srcVars, waitVars, handlers, cancelled, crashed,
                 pending, closeIdx, curEvent, curHandler, workerChannels,
                 closed, handled, queuedAtStop, afterCancel>>

\* Stop: ep.cancel()
Stop ==
  /\ ~crashed
  /\ ~cancelled
  /\ pcWait # "returned"
  /\ cancelled' = TRUE
  /\ queuedAtStop' = UNION {Elems(workerChannels[w]) : w \in Workers}
  /\ UNCHANGED outsidePipeline
  /\ UNCHANGED <<cfgVars, srcVars, prodVars, consVars, waitVars, handlers,
                 started, crashed, workerChannels, closed, handled, afterCancel>>

(***************************************************************************)
(* producer                                                                *)
(***************************************************************************)
\* for ep.dataSource.HasMore(): the source says there is nothing more
ProducerNoMore ==
  /\ ~crashed
  /\ pcProd = "loop"
  /\ srcEnd' = "EOF"
  /\ pcProd' = "closing"
  /\ UNCHANGED outsidePipeline
  /\ UNCHANGED <<cfgVars, consVars, waitVars, handlers, started, cancelled,
                 crashed, srcReads, events, accepted, routed, pending,
                 closeIdx, workerChannels, closed, handled,
                 queuedAtStop, afterCancel>>

\* Read returns an error, "EOF" or any other: both leave the loop
ProducerReadError ==
  /\ ~crashed
  /\ pcProd = "loop"
  /\ \E kind \in {"EOF", "err"} : srcEnd' = kind
  /\ pcProd' = "closing"
  /\ UNCHANGED outsidePipeline
  /\ UNCHANGED <<cfgVars, consVars, waitVars, handlers, started, cancelled,
                 crashed, srcReads, events, accepted, routed, pending,
                 closeIdx, workerChannels, closed, handled,
                 queuedAtStop, afterCancel>>

\* Read returns (nil, nil): sleep and try again
ProducerReadNil ==
  /\ ~crashed
  /\ pcProd = "loop"
  /\ srcReads < ReadBound
  /\ srcReads' = srcReads + 1
  /\ UNCHANGED outsidePipeline
  /\ UNCHANGED <<cfgVars, prodVars, consVars, waitVars, handlers, started,
                 cancelled, crashed, srcEnd, events, accepted, routed,
                 workerChannels, closed, handled, queuedAtStop, afterCancel>>

\* Read returns an event the filter rejects: continue
ProducerReadFiltered ==
  /\ ~crashed
  /\ pcProd = "loop"
  /\ srcReads < ReadBound
  /\ \E e \in EventPool :
       /\ ~Match(rangeMatcher, e)
       /\ events' = Append(events, e)
  /\ srcReads' = srcReads + 1
  /\ UNCHANGED outsidePipeline
  /\ UNCHANGED <<cfgVars, prodVars, consVars, waitVars, handlers, started,
                 cancelled, crashed, srcEnd, accepted, routed,
                 workerChannels, closed, handled, queuedAtStop, afterCancel>>

\* Read returns an event the filter matches: its worker id is computed
ProducerReadMatched ==
  /\ ~crashed
  /\ pcProd = "loop"
  /\ srcReads < ReadBound
  /\ \E e \in EventPool :
       /\ Match(rangeMatcher, e)
       /\ events' = Append(events, e)
       /\ \E key \in getEventKey(e) :
            routed' = routed @@
              ((Len(events) + 1) :>
                 [key |-> key,
                  workerID |-> GetWorkerID(e.Table, key, workerCount)])
  /\ srcReads' = srcReads + 1
  /\ accepted' = accepted \cup {Len(events) + 1}
  /\ pending' = Len(events) + 1
  /\ pcProd' = "push"
  /\ UNCHANGED outsidePipeline
  /\ UNCHANGED <<cfgVars, consVars, waitVars, handlers, started, cancelled,
                 crashed, srcEnd, closeIdx, workerChannels, closed, handled,
                 queuedAtStop, afterCancel>>

\* ep.workerChannels[workerID] with workerID outside the slice: the index
\* expression panics and the process dies
ProducerPanic ==
  /\ ~crashed
  /\ pcProd = "push"
  /\ routed[pending].workerID \notin Workers
  /\ crashed' = TRUE
  /\ UNCHANGED outsidePipeline
  /\ UNCHANGED <<cfgVars, srcVars, prodVars, consVars, waitVars, handlers,
                 started, cancelled, workerChannels, closed, handled,
                 queuedAtStop, afterCancel>>

\* select, case ep.workerChannels[workerID] <- event
ProducerSend ==
  /\ ~crashed
  /\ pcProd = "push"
  /\ routed[pending].workerID \in Workers
  /\ LET w == routed[pending].workerID
     IN  /\ CanSend(workerChannels[w])
         /\ workerChannels' =
              [workerChannels EXCEPT ![w] = ChanSend(workerChannels[w], pending)]
  /\ pcProd' = "loop"
  /\ pending' = 0
  /\ UNCHANGED outsidePipeline
  /\ UNCHANGED <<cfgVars, srcVars, consVars, waitVars, handlers, started,
                 cancelled, crashed, closeIdx, closed, handled,
                 queuedAtStop, afterCancel>>

\* select, case <-ep.ctx.Done(): return
ProducerAbort ==
  /\ ~crashed
  /\ pcProd = "push"
  /\ routed[pending].workerID \in Workers
  /\ cancelled
  /\ pcProd' = "closing"
  /\ pending' = 0
  /\ UNCHANGED outsidePipeline
  /\ UNCHANGED <<cfgVars, srcVars, consVars, waitVars, handlers, started,
                 cancelled, crashed, closeIdx, workerChannels, closed,
                 handled, queuedAtStop, afterCancel>>

\* the deferred loop closes the worker channels one after the other
ProducerClose ==
  /\ ~crashed
  /\ pcProd = "closing"
  /\ closeIdx < workerCount
  /\ closed' = [closed EXCEPT ![closeIdx] = TRUE]
  /\ closeIdx' = closeIdx + 1
  /\ UNCHANGED outsidePipeline
  /\ UNCHANGED <<cfgVars, srcVars, consVars, waitVars, handlers, started,
                 cancelled, crashed, pcProd, pending, workerChannels,
                 handled, queuedAtStop, afterCancel>>

\* the deferred ep.wg.Done()
ProducerExit ==
  /\ ~crashed
  /\ pcProd = "closing"
  /\ closeIdx = workerCount
  /\ pcProd' = "done"
  /\ UNCHANGED outsidePipeline
  /\ UNCHANGED <<cfgVars, srcVars, consVars, waitVars, handlers, started,
                 cancelled, crashed, pending, closeIdx, workerChannels,
                 closed, handled, queuedAtStop, afterCancel>>

(***************************************************************************)
(* consumer(id)                                                            *)
(***************************************************************************)
\* select, case event, ok := <-ep.workerChannels[id], an event is there
ConsumerReceive(id) ==
  /\ ~crashed
  /\ pcCons[id] = "recv"
  /\ workerChannels[OwnChannel(id)] # <<>>
  /\ workerChannels' = [workerChannels EXCEPT
                          ![OwnChannel(id)] = ChanRest(workerChannels[OwnChannel(id)])]
  /\ IF Len(handlers) > 0
     THEN /\ pcCons' = [pcCons EXCEPT ![id] = "handle"]
          /\ curEvent' = [curEvent EXCEPT
                            ![id] = ChanFront(workerChannels[OwnChannel(id)])]
          /\ curHandler' = [curHandler EXCEPT ![id] = 1]
     ELSE UNCHANGED <<pcCons, curEvent, curHandler>>
  /\ afterCancel' = IF ChanFront(workerChannels[OwnChannel(id)]) \in queuedAtStop
                    THEN afterCancel \cup {"handled"} ELSE afterCancel
  /\ UNCHANGED outsidePipeline
  /\ UNCHANGED <<cfgVars, srcVars, prodVars, waitVars, handlers, started,
                 cancelled, crashed, closed, handled, queuedAtStop>>

\* select, case event, ok := <-ep.workerChannels[id], closed and empty
ConsumerClosed(id) ==
  /\ ~crashed
  /\ pcCons[id] = "recv"
  /\ workerChannels[OwnChannel(id)] = <<>>
  /\ closed[OwnChannel(id)]
  /\ pcCons' = [pcCons EXCEPT ![id] = "done"]
  /\ UNCHANGED outsidePipeline
  /\ UNCHANGED <<cfgVars, srcVars, prodVars, waitVars, handlers, started,
                 cancelled, crashed, curEvent, curHandler, workerChannels,
                 closed, handled, queuedAtStop, afterCancel>>

\* select, case <-ep.ctx.Done(): return
ConsumerCancelled(id) ==
  /\ ~crashed
  /\ pcCons[id] = "recv"
  /\ cancelled
  /\ pcCons' = [pcCons EXCEPT ![id] = "done"]
  /\ afterCancel' = IF Elems(workerChannels[OwnChannel(id)]) \cap queuedAtStop # {}
                    THEN afterCancel \cup {"abandoned"} ELSE afterCancel
  /\ UNCHANGED outsidePipeline
  /\ UNCHANGED <<cfgVars, srcVars, prodVars, waitVars, handlers, started,
                 cancelled, crashed, curEvent, curHandler, workerChannels,
                 closed, handled, queuedAtStop>>

\* a handleEvent that gives up the event at the first Handle error
AfterHandleStopOnError(pos, err) ==
  IF ~err /\ pos < Len(handlers)
  THEN [pc |-> "handle", next |-> pos + 1, keep |-> TRUE]
  ELSE [pc |-> "recv", next |-> 0, keep |-> FALSE]

\* where the worker goes after the Handle call at position pos of handlers,
\* whether it returned an error or not: on to the next handler, and after
\* the last one back to the select.  next is the next position and keep
\* tells whether the worker still holds its event.
AfterHandle(pos, err) ==
  IF pos < Len(handlers)
  THEN [pc |-> "handle", next |-> pos + 1, keep |-> TRUE]
  ELSE [pc |-> "recv", next |-> 0, keep |-> FALSE]

\* handleEvent: one handler.Handle(event) call, which may return an error
ConsumerHandle(id) ==
  /\ ~crashed
  /\ pcCons[id] = "handle"
  /\ LET h == handlers[curHandler[id]]
         e == curEvent[id]
         after == AfterHandle(curHandler[id], FALSE)
     IN  /\ handled' = [handled EXCEPT ![h][e] = handled[h][e] + 1]
         /\ \/ \* err != nil: go to the log.Printf
               /\ pcCons' = [pcCons EXCEPT ![id] = "logerr"]
               /\ UNCHANGED <<curHandler, curEvent>>
            \/ \* err == nil
               /\ pcCons' = [pcCons EXCEPT ![id] = after.pc]
               /\ curHandler' = [curHandler EXCEPT ![id] = after.next]
               /\ curEvent' = [curEvent EXCEPT ![id] = IF after.keep THEN curEvent[id] ELSE 0]
  /\ UNCHANGED outsidePipeline
  /\ UNCHANGED <<cfgVars, srcVars, prodVars, waitVars, handlers, started,
                 cancelled, crashed, workerChannels, closed,
                 queuedAtStop, afterCancel>>

\* handleEvent: log.Printf("Error handling event"), then the loop goes on
ConsumerLogError(id) ==
  /\ ~crashed
  /\ pcCons[id] = "logerr"
  /\ LET after == AfterHandle(curHandler[id], TRUE)
     IN  /\ pcCons' = [pcCons EXCEPT ![id] = after.pc]
         /\ curHandler' = [curHandler EXCEPT ![id] = after.next]
         /\ curEvent' = [curEvent EXCEPT ![id] = IF after.keep THEN curEvent[id] ELSE 0]
  /\ UNCHANGED outsidePipeline
  /\ UNCHANGED <<cfgVars, srcVars, prodVars, waitVars, handlers, started,
                 cancelled, crashed, workerChannels, closed, handled,
                 queuedAtStop, afterCancel>>

(***************************************************************************)
(* Wait and flush                                                          *)
(***************************************************************************)
\* where flush goes after the Flush call at position pos
AfterFlush(pos, err) ==
  IF err THEN [pc |-> "returned", next |-> 0, err |-> TRUE]
  ELSE IF pos < Len(handlers) THEN [pc |-> "flush", next |-> pos + 1, err |-> FALSE]
  ELSE [pc |-> "returned", next |-> 0, err |-> FALSE]

\* ep.wg.Wait() returns once the producer and every consumer are done
WaitJoin ==
  /\ ~crashed
  /\ started
  /\ pcWait = "idle"
  /\ pcProd = "done"
  /\ \A w \in Workers : pcCons[w] = "done"
  /\ IF Len(handlers) > 0
     THEN pcWait' = "flush" /\ flushIdx' = 1
     ELSE pcWait' = "returned" /\ flushIdx' = 0
  /\ UNCHANGED outsidePipeline
  /\ UNCHANGED <<cfgVars, srcVars, prodVars, consVars, handlers, started,
                 cancelled, crashed, workerChannels, closed, handled,
                 flushCount, waitErr, queuedAtStop, afterCancel>>

\* flush: one handler.Flush() call; the first error ends the loop
WaitFlush ==
  /\ ~crashed
  /\ pcWait = "flush"
  /\ LET h == handlers[flushIdx]
     IN  \E err \in BOOLEAN :
           /\ flushCount' = [flushCount EXCEPT ![h] = flushCount[h] + 1]
           /\ pcWait' = AfterFlush(flushIdx, err).pc
           /\ flushIdx' = AfterFlush(flushIdx, err).next
           /\ waitErr' = AfterFlush(flushIdx, err).err
  /\ UNCHANGED outsidePipeline
  /\ UNCHANGED <<cfgVars, srcVars, prodVars, consVars, handlers, started,
                 cancelled, crashed, workerChannels, closed, handled,
                 queuedAtStop, afterCancel>>

Next ==
  \/ AddHandler
  \/ Start
  \/ Stop
  \/ ProducerNoMore
  \/ ProducerReadError
  \/ ProducerReadNil
  \/ ProducerReadFiltered
  \/ ProducerReadMatched
  \/ ProducerPanic
  \/ ProducerSend
  \/ ProducerAbort
  \/ ProducerClose
  \/ ProducerExit
  \/ \E id \in Workers : ConsumerReceive(id)
  \/ \E id \in Workers : ConsumerClosed(id)
  \/ \E id \in Workers : ConsumerCancelled(id)
  \/ \E id \in Workers : ConsumerHandle(id)
  \/ \E id \in Workers : ConsumerLogError(id)
  \/ WaitJoin
  \/ WaitFlush

Spec == Init /\ [][Next]_vars

\* the steps of the goroutines and of Wait; Start, Stop and AddHandler are
\* the caller's
ProducerStep ==
  \/ ProducerNoMore
  \/ ProducerReadError
  \/ ProducerReadNil
  \/ ProducerReadFiltered
  \/ ProducerReadMatched
  \/ ProducerPanic
  \/ ProducerSend
  \/ ProducerAbort
  \/ ProducerClose
  \/ ProducerExit

ConsumerStep(id) ==
  \/ ConsumerReceive(id)
  \/ ConsumerClosed(id)
  \/ ConsumerCancelled(id)
  \/ ConsumerHandle(id)
  \/ ConsumerLogError(id)

WaitStep == WaitJoin \/ WaitFlush

\* every goroutine that can run is eventually scheduled, every handler
\* call returns, and the caller calls Wait after Start
FairSpec ==
  /\ Spec
  /\ WF_vars(ProducerStep)
  /\ \A id \in 0..(MaxWorkerCount - 1) :
       WF_vars(id \in Workers /\ ConsumerStep(id))
  /\ WF_vars(WaitStep)

TypeOK ==
  /\ workerCount \in WorkerCounts
  /\ pcProd \in {"idle", "loop", "push", "closing", "done"}
  /\ \A w \in Workers : Len(workerChannels[w]) <= defaultBufferSize
  /\ srcReads \in 0..ReadBound

(***************************************************************************)
(* The claims.                                                             *)
(***************************************************************************)
Registered == {handlers[i] : i \in 1..Len(handlers)}

\* the index in handlers of the worker channel the producer is sending to
ProducerTarget == routed[pending].workerID

\* same table and same routing key
SamePartition(e1, e2) ==
  /\ events[e1].Table = events[e2].Table
  /\ routed[e1].key = routed[e2].key

\* an event index whose Handle is being called by the step, for handler h
HandleCalled(h, e) == handled'[h][e] > handled[h][e]

C2_ExactlyOnce ==
  (pcWait # "idle" /\ ~cancelled /\ srcEnd = "EOF") =>
    \A e \in 1..Len(events) : \A h \in Registered :
      handled[h][e] = IF Match(rangeMatcher, events[e]) THEN 1 ELSE 0

C2_Witness ==
  /\ pcWait = "returned"
  /\ ~cancelled
  /\ srcEnd = "EOF"
  /\ workerCount >= 2
  /\ Len(handlers) = 2
  /\ Len(events) >= 2
  /\ accepted # {}

\* C3 as stated: while the producer holds an event for a worker channel, a
\* full channel keeps the producer where it is, and the producer leaves the
\* push only by appending the event to that channel, no other channel
\* changing.
C3_NeverDropped ==
  [][(pcProd = "push" /\ ProducerTarget \in Workers) =>
       IF Len(workerChannels[ProducerTarget]) >= defaultBufferSize
       THEN pcProd' = "push" /\ pending' = pending /\ srcReads' = srcReads
       ELSE \/ pcProd' = "push" /\ pending' = pending
            \/ /\ workerChannels'[ProducerTarget] =
                    Append(workerChannels[ProducerTarget], pending)
               /\ \A w \in Workers \ {ProducerTarget} :
                    workerChannels'[w] = workerChannels[w]]_vars

\* C3 amended: the same, as long as the cancellation signal is not set.
C3_NotDroppedUnlessCancelled ==
  [][(pcProd = "push" /\ ProducerTarget \in Workers /\ ~cancelled) =>
       IF Len(workerChannels[ProducerTarget]) >= defaultBufferSize
       THEN pcProd' = "push" /\ pending' = pending /\ srcReads' = srcReads
       ELSE \/ pcProd' = "push" /\ pending' = pending
            \/ /\ workerChannels'[ProducerTarget] =
                    Append(workerChannels[ProducerTarget], pending)
               /\ \A w \in Workers \ {ProducerTarget} :
                    workerChannels'[w] = workerChannels[w]]_vars

C3_Witness ==
  /\ pcProd = "push"
  /\ ~cancelled
  /\ ProducerTarget \in Workers
  /\ Len(workerChannels[ProducerTarget]) = defaultBufferSize
  /\ pcCons[ProducerTarget] \in {"handle", "logerr"}

\* the primary-key value of a row event: its first column
PrimaryKeyOf(e) ==
  IF "col_0" \in DOMAIN e.AfterValues THEN e.AfterValues["col_0"]
  ELSE e.BeforeValues["col_0"]

\* C4: two row events of the same table with the same primary-key value are
\* routed to the same worker index.
C4_SamePkSameWorker ==
  \A e1, e2 \in DOMAIN routed :
    (/\ events[e1].Table = events[e2].Table
     /\ PrimaryKeyOf(events[e1]) = PrimaryKeyOf(events[e2]))
    => routed[e1].workerID = routed[e2].workerID

\* C5: every worker id GetWorkerID returns to the producer is an index of
\* the worker-channel slice.
C5_WorkerIdInRange ==
  \A e \in DOMAIN routed :
    routed[e].workerID >= 0 /\ routed[e].workerID < workerCount

\* C6: no handler is flushed twice, none before the producer and all the
\* workers have exited, and when Wait has returned every registered handler
\* has been flushed once.
C6_FlushExactlyOnce ==
  /\ \A h \in HandlerIds : flushCount[h] <= 1
  /\ (\E h \in HandlerIds : flushCount[h] > 0) =>
       (pcProd = "done" /\ \A w \in Workers : pcCons[w] = "done")
  /\ pcWait = "returned" => \A h \in Registered : flushCount[h] = 1

\* C7: a started pipeline that is never cancelled ends with Wait returning.
C7_Terminates == started ~> (pcWait = "returned" \/ cancelled)

\* C8: once the cancellation signal is set, no event is added to any worker
\* channel.
C8_NoPushAfterStop ==
  [][cancelled =>
       \A w \in Workers : Len(workerChannels'[w]) <= Len(workerChannels[w])]_vars

\* C9: of the events that were queued when the cancellation signal was set,
\* the workers do not both take some and leave others behind.
C9_UniformPolicy == ~({"handled", "abandoned"} \subseteq afterCancel)

\* C10: a Handle error ends nothing.  A worker returns only on
\* cancellation or on its closed and empty channel; an event a handler has
\* been given and the next handler has not is still held by a worker that
\* is about to give it to the next handler; and the step after the error
\* log leads to the next handler or back to the select and touches neither
\* the producer nor the channels.
C10_WorkerExitCause ==
  \A id \in Workers :
    pcCons[id] = "done" => (cancelled \/ (closed[id] /\ workerChannels[id] = <<>>))

C10_NextHandlerOwed ==
  \A e \in 1..Len(events) : \A p \in 1..(Len(handlers) - 1) :
    (handled[handlers[p]][e] >= 1 /\ handled[handlers[p + 1]][e] = 0) =>
      \E id \in Workers :
        /\ curEvent[id] = e
        /\ \/ pcCons[id] = "logerr" /\ curHandler[id] = p
           \/ pcCons[id] = "handle" /\ curHandler[id] = p + 1

C10_AfterErrorStep ==
  \A id \in Workers :
    (pcCons[id] = "logerr" /\ pcCons'[id] # "logerr") =>
      /\ pcCons'[id] \in {"handle", "recv"}
      /\ UNCHANGED <<pcProd, pending, closeIdx, workerChannels, closed,
                     crashed, cancelled>>

C10_HandlerErrorNotFatal ==
  /\ [](C10_WorkerExitCause /\ C10_NextHandlerOwed)
  /\ [][C10_AfterErrorStep]_vars

C10_Witness ==
  \E id \in Workers :
    /\ pcCons[id] = "logerr"
    /\ curHandler[id] = 1
    /\ Len(handlers) = 2
    /\ workerChannels[id] # <<>>

\* C11: when Read reports a failure that is not end-of-stream while the
\* stream has more to give, the producer stays in its read loop (the event
\* is skipped and the following ones are read).
C11_DecodeErrorSkipped ==
  [][(pcProd = "loop" /\ srcReads < ReadBound /\ srcEnd # "err" /\ srcEnd' = "err")
       => pcProd' = "loop"]_vars

(***************************************************************************)
(* MetaCache: NewMetaCache, GetTableMeta, GetColumnName, Clear.            *)
(***************************************************************************)
\* the maxSize arguments a command may pass to NewMetaCache
CacheSizes == {1, 2}

\* the column indexes GetColumnName may be called with
ColumnIndexes == {-1, 0, 1, 2}

\* the pipeline is not running
PipelineParked ==
  /\ workerCount = 1
  /\ rangeMatcher = <<>>
  /\ handlers = <<>>
  /\ started = FALSE
  /\ cancelled = FALSE
  /\ crashed = FALSE
  /\ srcReads = 0
  /\ srcEnd = ""
  /\ events = <<>>
  /\ accepted = {}
  /\ routed = <<>>
  /\ pcProd = "idle"
  /\ pending = 0
  /\ closeIdx = 0
  /\ workerChannels = [w \in {0} |-> <<>>]
  /\ closed = [w \in {0} |-> FALSE]
  /\ pcCons = [w \in {0} |-> "idle"]
  /\ curEvent = [w \in {0} |-> 0]
  /\ curHandler = [w \in {0} |-> 0]
  /\ handled = [h \in HandlerIds |-> [e \in 1..(MaxReads + 1) |-> 0]]
  /\ pcWait = "idle"
  /\ flushIdx = 0
  /\ flushCount = [h \in HandlerIds |-> 0]
  /\ waitErr = FALSE
  /\ queuedAtStop = {}
  /\ afterCancel = {}

\* NewMetaCache(db, maxSize, m)
CacheInit ==
  /\ PipelineParked
  /\ SqlParked
  /\ SourceParked
  /\ MatcherParked
  /\ MonitorParked
  /\ CheckpointParked
  /\ ResumeParked
  /\ mcDb \in BOOLEAN
  /\ maxSize \in CacheSizes
  /\ cache = {}
  /\ notFoundCache = [k \in Keys |-> -1]
  /\ sf = [k \in Keys |-> 0]
  /\ pcGet = [g \in Getters |-> "idle"]
  /\ keyGet = [g \in Getters |-> ""]
  /\ resGet = [g \in Getters |-> ""]
  /\ lookups = 0
  /\ clears = 0
  /\ panicked = FALSE
  /\ queryCount = [k \in Keys |-> 0]
  /\ queryClears = [k \in Keys |-> -1]
  /\ beganClears = [g \in Getters |-> 0]
  /\ lastAccess = ""
  /\ evicted = FALSE

\* TableNotFoundCache.IsExpired: time.Since(tnc.timestamp) > tnc.ttl
IsExpired(since) == since > notFoundCacheTTL

\* the variables no step of a request changes
tickVars == <<mcDb, maxSize, lookups, clears, panicked>>

\* the history of the catalog queries and of the evictions
histVars == <<queryCount, queryClears, evicted>>

\* time passes: every not-found entry gets one tick older (ages are
\* followed up to MaxAge)
Tick ==
  /\ ~panicked
  /\ maxSize > 0
  /\ \E k \in Keys : notFoundCache[k] # -1 /\ notFoundCache[k] < MaxAge
  /\ notFoundCache' =
       [k \in Keys |->
          IF notFoundCache[k] = -1 \/ notFoundCache[k] = MaxAge
          THEN notFoundCache[k] ELSE notFoundCache[k] + 1]
  /\ UNCHANGED outsideCache
  /\ UNCHANGED <<tickVars, cache, sf, pcGet, keyGet, resGet, histVars,
                 beganClears, lastAccess>>

\* GetColumnName calls GetTableMeta; without a database it returns an error
GetBegin(g) ==
  /\ ~panicked
  /\ maxSize > 0
  /\ pcGet[g] = "idle"
  /\ lookups < MaxLookups
  /\ lookups' = lookups + 1
  /\ \E k \in Keys : keyGet' = [keyGet EXCEPT ![g] = k]
  /\ beganClears' = [beganClears EXCEPT ![g] = clears]
  /\ IF mcDb
     THEN pcGet' = [pcGet EXCEPT ![g] = "negative"] /\ UNCHANGED resGet
     ELSE /\ pcGet' = [pcGet EXCEPT ![g] = "return"]
          /\ resGet' = [resGet EXCEPT ![g] = "err"]
  /\ UNCHANGED outsideCache
  /\ UNCHANGED <<mcDb, maxSize, cache, notFoundCache, sf, clears,
                 panicked, histVars, lastAccess>>

\* the check of the not-found cache, under the read lock
GetNegativeCheck(g) ==
  /\ ~panicked
  /\ pcGet[g] = "negative"
  /\ IF notFoundCache[keyGet[g]] # -1 /\ ~IsExpired(notFoundCache[keyGet[g]])
     THEN /\ pcGet' = [pcGet EXCEPT ![g] = "return"]
          /\ resGet' = [resGet EXCEPT ![g] = "err"]
     ELSE pcGet' = [pcGet EXCEPT ![g] = "positive"] /\ UNCHANGED resGet
  /\ UNCHANGED outsideCache
  /\ UNCHANGED <<tickVars, cache, notFoundCache, sf, keyGet, histVars,
                 beganClears, lastAccess>>

\* the check of the metadata cache, under the read lock
GetPositiveCheck(g) ==
  /\ ~panicked
  /\ pcGet[g] = "positive"
  /\ IF keyGet[g] \in cache
     THEN /\ pcGet' = [pcGet EXCEPT ![g] = "return"]
          /\ resGet' = [resGet EXCEPT ![g] = "ok"]
          /\ lastAccess' = keyGet[g]
     ELSE /\ pcGet' = [pcGet EXCEPT ![g] = "do"]
          /\ UNCHANGED <<resGet, lastAccess>>
  /\ UNCHANGED outsideCache
  /\ UNCHANGED <<tickVars, cache, notFoundCache, sf, keyGet, histVars,
                 beganClears>>

\* mc.sf.Do(key, fn): run fn if no call for the key is in flight, else wait
\* for the call in flight
GetDo(g) ==
  /\ ~panicked
  /\ pcGet[g] = "do"
  /\ IF sf[keyGet[g]] = 0
     THEN /\ sf' = [sf EXCEPT ![keyGet[g]] = g]
          /\ pcGet' = [pcGet EXCEPT ![g] = "recheck"]
     ELSE /\ pcGet' = [pcGet EXCEPT ![g] = "wait"]
          /\ UNCHANGED sf
  /\ UNCHANGED outsideCache
  /\ UNCHANGED <<tickVars, cache, notFoundCache, keyGet, resGet, histVars,
                 beganClears, lastAccess>>

\* fn: the second check of the metadata cache
GetRecheck(g) ==
  /\ ~panicked
  /\ pcGet[g] = "recheck"
  /\ IF keyGet[g] \in cache
     THEN /\ pcGet' = [pcGet EXCEPT ![g] = "done"]
          /\ resGet' = [resGet EXCEPT ![g] = "ok"]
     ELSE /\ pcGet' = [pcGet EXCEPT ![g] = "query"]
          /\ UNCHANGED resGet
  /\ UNCHANGED outsideCache
  /\ UNCHANGED <<tickVars, cache, notFoundCache, sf, keyGet, histVars,
                 beganClears, lastAccess>>

\* what mc.queryTableMeta returns: the columns, the error "table not found"
\* when the query gave no row, or the error of db.Query, rows.Scan or rows.Err
QueryOutcomes == {"found", "absent", "failed"}

\* fn: mc.queryTableMeta(schema, table); err is kept in the position
GetQuery(g) ==
  /\ ~panicked
  /\ pcGet[g] = "query"
  /\ queryCount' = [queryCount EXCEPT ![keyGet[g]] = queryCount[keyGet[g]] + 1]
  /\ queryClears' = [queryClears EXCEPT ![keyGet[g]] = clears]
  /\ \E outcome \in QueryOutcomes :
       pcGet' = [pcGet EXCEPT ![g] =
                   CASE outcome = "found" -> "store"
                     [] outcome = "absent" -> "storeNotFound"
                     [] outcome = "failed" -> "storeFailed"]
  /\ UNCHANGED outsideCache
  /\ UNCHANGED <<tickVars, cache, notFoundCache, sf, keyGet, resGet, evicted,
                 beganClears, lastAccess>>

\* fn: the write of the not-found cache, under the lock, made whenever err is
\* not nil
GetStoreNotFound(g) ==
  /\ ~panicked
  /\ pcGet[g] \in {"storeNotFound", "storeFailed"}
  /\ notFoundCache' = [notFoundCache EXCEPT ![keyGet[g]] = 0]
  /\ pcGet' = [pcGet EXCEPT ![g] = "done"]
  /\ resGet' = [resGet EXCEPT ![g] = "err"]
  /\ UNCHANGED outsideCache
  /\ UNCHANGED <<tickVars, cache, sf, keyGet, histVars, beganClears,
                 lastAccess>>

\* an overflow handling that deletes nothing
KeepAll(c) == {c}

\* the caches the deletion loop of the overflow branch may leave: it deletes
\* keys in the order of the map iteration until fewer than maxSize / 2 are
\* left, or none
AfterEviction(c) ==
  LET goal == maxSize \div 2
      left == IF goal >= 1 THEN goal - 1 ELSE 0
  IN  {d \in SUBSET c : Cardinality(d) = left}

\* fn: the write of the metadata cache, under the lock
GetStore(g) ==
  /\ ~panicked
  /\ pcGet[g] = "store"
  /\ IF Cardinality(cache) < maxSize
     THEN cache' = cache \cup {keyGet[g]} /\ UNCHANGED evicted
     ELSE /\ \E d \in AfterEviction(cache) : cache' = d \cup {keyGet[g]}
          /\ evicted' = TRUE
  /\ lastAccess' = keyGet[g]
  /\ pcGet' = [pcGet EXCEPT ![g] = "done"]
  /\ resGet' = [resGet EXCEPT ![g] = "ok"]
  /\ UNCHANGED outsideCache
  /\ UNCHANGED <<tickVars, notFoundCache, sf, keyGet, queryCount,
                 queryClears, beganClears>>

\* sf.Do ends: the call is forgotten and its result is handed to the
\* goroutines that waited for it
GetDone(g) ==
  /\ ~panicked
  /\ pcGet[g] = "done"
  /\ sf' = [sf EXCEPT ![keyGet[g]] = 0]
  /\ LET woken == {w \in Getters : pcGet[w] = "wait" /\ keyGet[w] = keyGet[g]}
     IN  /\ pcGet' = [w \in Getters |->
                        IF w = g \/ w \in woken THEN "return" ELSE pcGet[w]]
         /\ resGet' = [w \in Getters |->
                         IF w \in woken THEN resGet[g] ELSE resGet[w]]
  /\ UNCHANGED outsideCache
  /\ UNCHANGED <<tickVars, cache, notFoundCache, keyGet, histVars,
                 beganClears, lastAccess>>

\* what GetColumnName does with the result of GetTableMeta: "placeholder"
\* for col_<index>, "name" for meta.Columns[index].Name, "panic" for an
\* index expression out of range
ColumnNameOutcome(res, columns, index) ==
  IF res = "err" \/ index >= Len(columns) THEN "placeholder"
  ELSE IF index < 0 THEN "panic"
  ELSE "name"

\* GetColumnName returns
GetReturn(g) ==
  /\ ~panicked
  /\ pcGet[g] = "return"
  /\ \E index \in ColumnIndexes :
       panicked' = (ColumnNameOutcome(resGet[g], Catalog[keyGet[g]], index) = "panic")
  /\ pcGet' = [pcGet EXCEPT ![g] = "idle"]
  /\ keyGet' = [keyGet EXCEPT ![g] = ""]
  /\ resGet' = [resGet EXCEPT ![g] = ""]
  /\ beganClears' = [beganClears EXCEPT ![g] = 0]
  /\ UNCHANGED outsideCache
  /\ UNCHANGED <<mcDb, maxSize, cache, notFoundCache, sf, lookups,
                 clears, histVars, lastAccess>>

\* Clear: both maps are replaced by empty ones, under the lock
Clear ==
  /\ ~panicked
  /\ maxSize > 0
  /\ clears < MaxClears
  /\ clears' = clears + 1
  /\ cache' = {}
  /\ notFoundCache' = [k \in Keys |-> -1]
  /\ UNCHANGED outsideCache
  /\ UNCHANGED <<mcDb, maxSize, sf, pcGet, keyGet, resGet, lookups,
                 panicked, histVars, beganClears, lastAccess>>

CacheNext ==
  \/ Tick
  \/ Clear
  \/ \E g \in Getters : GetBegin(g)
  \/ \E g \in Getters : GetNegativeCheck(g)
  \/ \E g \in Getters : GetPositiveCheck(g)
  \/ \E g \in Getters : GetDo(g)
  \/ \E g \in Getters : GetRecheck(g)
  \/ \E g \in Getters : GetQuery(g)
  \/ \E g \in Getters : GetStoreNotFound(g)
  \/ \E g \in Getters : GetStore(g)
  \/ \E g \in Getters : GetDone(g)
  \/ \E g \in Getters : GetReturn(g)

CacheSpec == CacheInit /\ [][CacheNext]_vars

\* C12: as long as nothing was cleared, evicted or has expired, at most one
\* catalog query has been issued for a key, however many goroutines asked
\* for it at the same time and whatever the query found.
C12_OneQueryPerKey ==
  \A k \in Keys :
    (clears = 0 /\ ~evicted /\ ~IsExpired(notFoundCache[k])) => queryCount[k] <= 1

\* C13: no catalog query is issued for a key while the not-found cache
\* holds an entry for it that has not expired.
C13_NoQueryWhileNotFound ==
  [][\A k \in Keys :
       queryCount'[k] > queryCount[k] =>
         (notFoundCache[k] = -1 \/ IsExpired(notFoundCache[k]))]_vars

\* C14: GetColumnName never panics.
C14_NeverPanics == ~panicked

\* C15: the metadata cache never holds more than maxSize entries.
C15_PositiveBound == Cardinality(cache) <= maxSize

C15_Witness == evicted /\ Cardinality(cache) = maxSize

\* C16: in a cache of two entries or more, the entry read or written last
\* is not among those an overflow deletes.
C16_RecentSurvives ==
  [][(maxSize >= 2 /\ clears' = clears /\ lastAccess \in cache)
       => lastAccess \in cache']_vars

\* C17: no not-found entry is still stored one sweep period (one tick)
\* after its expiry.
C17_ExpiredSwept ==
  \A k \in Keys : notFoundCache[k] <= notFoundCacheTTL + 1

\* C18: a request that began after a Clear returns only what a catalog
\* query issued after that Clear found.
C18_FreshAfterClear ==
  [][\A g \in Getters :
       (mcDb /\ pcGet[g] = "return" /\ pcGet'[g] = "idle")
         => queryClears[keyGet[g]] >= beganClears[g]]_vars

\* C39: a catalog query that failed for another reason than the table being
\* absent leaves the not-found cache of its key as it was, so that the next
\* request for the key queries the catalog again.
C39_FailureNotCached ==
  [][\A g \in Getters :
       (pcGet[g] = "storeFailed" /\ pcGet'[g] # "storeFailed")
         => notFoundCache'[keyGet[g]] = notFoundCache[keyGet[g]]]_vars

(***************************************************************************)
(* SQLGenerator (pkg/util).  A statement is the sequence of the pieces it  *)
(* is concatenated from: the words of the format strings and the           *)
(* characters of the names and values.  The empty string is <<>>.  The     *)
(* range over a Go map yields its keys in an unspecified order, so a       *)
(* generator is the set of the statements it may return.                   *)
(***************************************************************************)
NullV == [kind |-> "nil", int |-> 0, str |-> <<>>]

\* strings.ReplaceAll(s, old, new) for a one-character old
RECURSIVE ReplaceAll(_, _, _)
ReplaceAll(s, old, new) ==
  IF s = <<>> THEN <<>>
  ELSE (IF Head(s) = old THEN new ELSE <<Head(s)>>) \o ReplaceAll(Tail(s), old, new)

escapeSingleQuote(s) ==
  ReplaceAll(ReplaceAll(s, "\\", <<"\\", "\\">>), "'", <<"\\", "'">>)

\* the backquote character U+0060, written as a word
Backtick == "BACKTICK"

\* an escapeBacktick that leaves the name as it is
escapeBacktickNone(s) == s

escapeBacktick(s) == ReplaceAll(s, Backtick, <<Backtick, Backtick>>)

formatValue(v) ==
  IF v.kind = "nil" THEN <<"NULL">>
  ELSE IF v.kind = "int" THEN Itoa(v.int)
  ELSE <<"'">> \o escapeSingleQuote(v.str) \o <<"'">>

\* strings.Join(parts, sep)
RECURSIVE Join(_, _)
Join(parts, sep) ==
  IF parts = <<>> THEN <<>>
  ELSE IF Len(parts) = 1 THEN parts[1]
  ELSE parts[1] \o <<sep>> \o Join(Tail(parts), sep)

\* fmt.Sprintf of a name between backquotes, escapeBacktick(name)
Quoted(name) == <<Backtick>> \o escapeBacktick(name) \o <<Backtick>>

\* fmt.Sprintf of name=value, escapeBacktick(k), sg.formatValue(v)
Assignment(k, v) == Quoted(k) \o <<"=">> \o formatValue(v)

\* the orders in which a range may yield the keys of a map
Orders(keys) ==
  {o \in [1..Cardinality(keys) -> keys] :
     \A i, j \in 1..Cardinality(keys) : i # j => o[i] # o[j]}

\* the assignments of a map, in the order o of its keys
Assignments(values, o) == [i \in 1..Len(o) |-> Assignment(o[i], values[o[i]])]

GenerateInsertSQL(event) ==
  IF event.Action # "INSERT" \/ DOMAIN event.AfterValues = {} THEN {<<>>}
  ELSE {<<"INSERT INTO ">> \o Quoted(event.Database) \o <<".">>
          \o Quoted(event.Table) \o <<" (">>
          \o Join([i \in 1..Len(o) |-> Quoted(o[i])], ", ")
          \o <<") VALUES (">>
          \o Join([i \in 1..Len(o) |-> formatValue(event.AfterValues[o[i]])], ", ")
          \o <<")">> :
        o \in Orders(DOMAIN event.AfterValues)}

\* a GenerateUpdateSQL without the check of an empty SET list
GenerateUpdateSQLUnchecked(event) ==
  IF event.Action # "UPDATE" THEN {<<>>}
  ELSE {<<"UPDATE ">> \o Quoted(event.Database) \o <<".">>
          \o Quoted(event.Table) \o <<" SET ">>
          \o Join(Assignments(event.AfterValues, o), ", ")
          \o <<" WHERE ">>
          \o Join(Assignments(event.BeforeValues, w), " AND ") :
        o \in Orders(DOMAIN event.AfterValues),
        w \in Orders(DOMAIN event.BeforeValues)}

GenerateUpdateSQL(event) ==
  IF event.Action # "UPDATE" \/ DOMAIN event.AfterValues = {} THEN {<<>>}
  ELSE {<<"UPDATE ">> \o Quoted(event.Database) \o <<".">>
          \o Quoted(event.Table) \o <<" SET ">>
          \o Join(Assignments(event.AfterValues, o), ", ")
          \o <<" WHERE ">>
          \o Join(Assignments(event.BeforeValues, w), " AND ") :
        o \in Orders(DOMAIN event.AfterValues),
        w \in Orders(DOMAIN event.BeforeValues)}

GenerateDeleteSQL(event) ==
  IF event.Action # "DELETE" \/ DOMAIN event.BeforeValues = {} THEN {<<>>}
  ELSE {<<"DELETE FROM ">> \o Quoted(event.Database) \o <<".">>
          \o Quoted(event.Table) \o <<" WHERE ">>
          \o Join(Assignments(event.BeforeValues, w), " AND ") :
        w \in Orders(DOMAIN event.BeforeValues)}

\* a rollback of an UPDATE that does not swap the images, and none for the
\* other actions
UnswappedRollbackSQL(event) ==
  IF event.Action = "UPDATE" THEN GenerateUpdateSQL(event) ELSE {<<>>}

\* SQLGenerator.GenerateRollbackSQL
GenerateRollbackSQL(event) ==
  CASE event.Action = "INSERT" ->
         GenerateDeleteSQL(Event(event.Database, event.Table, "DELETE",
                                 event.AfterValues, EmptyMap))
    [] event.Action = "UPDATE" ->
         GenerateUpdateSQL(Event(event.Database, event.Table, "UPDATE",
                                 event.AfterValues, event.BeforeValues))
    [] event.Action = "DELETE" ->
         GenerateInsertSQL(Event(event.Database, event.Table, "INSERT",
                                 EmptyMap, event.BeforeValues))
    [] OTHER -> {<<>>}

(***************************************************************************)
(* The rollback-sql command (cmd).                                         *)
(***************************************************************************)
\* generateRollbackSQL of cmd/rollback_sql.go
generateRollbackSQL(event) ==
  CASE event.Action = "INSERT" -> GenerateDeleteSQL(event)
    [] event.Action = "UPDATE" ->
         GenerateUpdateSQL(Event(event.Database, event.Table, "UPDATE",
                                 event.AfterValues, event.BeforeValues))
    [] event.Action = "DELETE" -> GenerateInsertSQL(event)
    [] OTHER -> {<<>>}

\* fmt.Sprintf("col_%d", i)
ColKey(i) == <<"c", "o", "l", "_">> \o Itoa(i)

\* the column names the catalog holds for the table of the events
TableColumns == << <<"i", "d">>, <<"n", Backtick>> >>

\* getColumnNameMapping: col_<i> -> the name of column i
columnNames == [k \in {ColKey(i - 1) : i \in 1..Len(TableColumns)} |->
                  TableColumns[CHOOSE i \in 1..Len(TableColumns) : ColKey(i - 1) = k]]

\* the key mapColNamesToValues stores the value of key under
RealName(key) == IF key \in DOMAIN columnNames THEN columnNames[key] ELSE key

mapColNamesToValues(values) ==
  [n \in {RealName(k) : k \in DOMAIN values} |->
     values[CHOOSE k \in DOMAIN values : RealName(k) = n]]

\* CommandHelper.MapColumnNames
MapColumnNames(event) ==
  IF ~hasColumnNames THEN event
  ELSE Event(event.Database, event.Table, event.Action,
             mapColNamesToValues(event.BeforeValues),
             mapColNamesToValues(event.AfterValues))

\* the row images and the events the command may be given
SqlColumns == {ColKey(0), ColKey(1)}

SqlValues == {NullV, IntV(1), StrV(<<"a", "'">>)}

SqlImages == UNION {[c -> SqlValues] : c \in SUBSET SqlColumns}

\* the schema and table of the events: plain names, and names that hold a
\* backquote
SqlTables == { << <<"d">>, <<"t">> >>, << <<"d", Backtick>>, <<Backtick, "t">> >> }

SqlEvents ==
  {Event(n[1], n[2], a, b, f) :
     n \in SqlTables, a \in {"INSERT", "UPDATE", "DELETE", "QUERY"},
     b \in SqlImages, f \in SqlImages}

\* one event: given to a rollback-sql handler, to GenerateRollbackSQL or to
\* a sql handler
SqlInit ==
  /\ PipelineParked
  /\ CacheParked
  /\ SourceParked
  /\ MatcherParked
  /\ MonitorParked
  /\ CheckpointParked
  /\ ResumeParked
  /\ sqlEvent \in SqlEvents
  /\ bulk \in BOOLEAN
  /\ hasColumnNames \in BOOLEAN
  /\ \/ pcHandler = "new" /\ pcGenerator = "idle" /\ pcForward = "idle"
     \/ /\ pcHandler = "idle" /\ pcGenerator = "new" /\ pcForward = "idle"
        /\ ~bulk /\ ~hasColumnNames
     \/ pcHandler = "idle" /\ pcGenerator = "idle" /\ pcForward = "new" /\ ~bulk
  /\ buffer = <<>>
  /\ stdout = <<>>
  /\ rollbackSQL = <<>>
  /\ forwardSQL = <<>>

\* rollbackSqlHandler.Handle
RollbackHandle ==
  /\ pcHandler = "new"
  /\ pcHandler' = "handled"
  /\ IF sqlEvent.Action = "QUERY"
     THEN UNCHANGED <<sqlEvent, buffer, stdout>>
     ELSE /\ sqlEvent' = MapColumnNames(sqlEvent)
          /\ \E sql \in generateRollbackSQL(MapColumnNames(sqlEvent)) :
               IF sql = <<>> THEN UNCHANGED <<buffer, stdout>>
               ELSE IF bulk
                 THEN buffer' = Append(buffer, sql) /\ UNCHANGED stdout
                 ELSE stdout' = Append(stdout, sql \o <<";">>) /\ UNCHANGED buffer
  /\ UNCHANGED outsideSql
  /\ UNCHANGED <<bulk, hasColumnNames, pcGenerator, rollbackSQL, pcForward,
                 forwardSQL>>

\* rollbackSqlHandler.Flush
RollbackFlush ==
  /\ pcHandler = "handled"
  /\ pcHandler' = "flushed"
  /\ IF bulk /\ Len(buffer) > 0
     THEN stdout' = stdout
            \o << <<"-- Bulk rollback: ">> \o Itoa(Len(buffer)) \o <<" statements">> >>
            \o [i \in 1..Len(buffer) |-> buffer[i] \o <<";">>]
     ELSE UNCHANGED stdout
  /\ UNCHANGED outsideSql
  /\ UNCHANGED <<sqlEvent, bulk, hasColumnNames, buffer, pcGenerator,
                 rollbackSQL, pcForward, forwardSQL>>

\* a call of sg.GenerateRollbackSQL(event)
CallGenerateRollbackSQL ==
  /\ pcGenerator = "new"
  /\ pcGenerator' = "returned"
  /\ \E sql \in GenerateRollbackSQL(sqlEvent) : rollbackSQL' = sql
  /\ UNCHANGED outsideSql
  /\ UNCHANGED <<sqlEvent, bulk, hasColumnNames, pcHandler, buffer, stdout,
                 pcForward, forwardSQL>>

\* the statement sqlHandler.Handle asks the generator for
GenerateForwardSQL(event) ==
  CASE event.Action = "INSERT" -> GenerateInsertSQL(event)
    [] event.Action = "UPDATE" -> GenerateUpdateSQL(event)
    [] event.Action = "DELETE" -> GenerateDeleteSQL(event)
    [] OTHER -> {<<>>}

\* the lines sqlHandler.Handle prints for a statement: two comments (the
\* timestamp and the log position are not part of the events of the model)
\* and the statement
ForwardLines(event, sql) ==
  << <<"-- ", event.Action, " at <Timestamp> (LogPos: <LogPos>)">>,
     <<"-- Database: ">> \o event.Database \o <<", Table: ">> \o event.Table,
     sql \o <<";">> >>

\* sqlHandler.Handle of the sql command
SqlHandle ==
  /\ pcForward = "new"
  /\ pcForward' = "handled"
  /\ IF sqlEvent.Action = "QUERY"
     THEN UNCHANGED <<sqlEvent, forwardSQL, stdout>>
     ELSE /\ sqlEvent' = MapColumnNames(sqlEvent)
          /\ \E sql \in GenerateForwardSQL(MapColumnNames(sqlEvent)) :
               /\ forwardSQL' = sql
               /\ IF sql = <<>> THEN UNCHANGED stdout
                  ELSE stdout' = stdout \o ForwardLines(MapColumnNames(sqlEvent), sql)
  /\ UNCHANGED outsideSql
  /\ UNCHANGED <<bulk, hasColumnNames, pcHandler, buffer, pcGenerator,
                 rollbackSQL>>

SqlNext ==
  \/ RollbackHandle
  \/ RollbackFlush
  \/ CallGenerateRollbackSQL
  \/ SqlHandle

SqlSpec == SqlInit /\ [][SqlNext]_vars

\* INSERT, UPDATE or DELETE
IsRowEvent(event) == event.Action \in {"INSERT", "UPDATE", "DELETE"}

\* the images the rollback rules use are not empty
HasImages(event) ==
  /\ event.Action \in {"INSERT", "UPDATE"} => DOMAIN event.AfterValues # {}
  /\ event.Action \in {"DELETE", "UPDATE"} => DOMAIN event.BeforeValues # {}

\* the event that undoes a row event
InverseEvent(event) ==
  CASE event.Action = "INSERT" ->
         Event(event.Database, event.Table, "DELETE", event.AfterValues, EmptyMap)
    [] event.Action = "UPDATE" ->
         Event(event.Database, event.Table, "UPDATE",
               event.AfterValues, event.BeforeValues)
    [] event.Action = "DELETE" ->
         Event(event.Database, event.Table, "INSERT", EmptyMap, event.BeforeValues)

\* the statement that replays a row event
ForwardSQL(event) ==
  CASE event.Action = "INSERT" -> GenerateInsertSQL(event)
    [] event.Action = "UPDATE" -> GenerateUpdateSQL(event)
    [] event.Action = "DELETE" -> GenerateDeleteSQL(event)

\* the lines of the output that are statements
Statements(out) == SelectSeq(out, LAMBDA line : line[1] # "-- Bulk rollback: ")

\* C19: once the handler has handled and flushed a row event with
\* non-empty images, its output holds exactly one statement, the one the
\* rollback rules give for the event.
C19_OneRollbackStatement ==
  (pcHandler = "flushed" /\ IsRowEvent(sqlEvent) /\ HasImages(sqlEvent)) =>
    \E sql \in ForwardSQL(InverseEvent(sqlEvent)) :
      Statements(stdout) = << sql \o <<";">> >>

\* C20: for a row event, GenerateRollbackSQL returns the forward statement
\* of the inverse event (the statements being told apart only by the order
\* in which the columns of a map are listed).
C20_RollbackIsForwardOfInverse ==
  (pcGenerator = "returned" /\ IsRowEvent(sqlEvent)) =>
    /\ rollbackSQL \in ForwardSQL(InverseEvent(sqlEvent))
    /\ GenerateRollbackSQL(sqlEvent) = ForwardSQL(InverseEvent(sqlEvent))

C20_Witness ==
  /\ pcGenerator = "returned"
  /\ sqlEvent.Action = "UPDATE"
  /\ Cardinality(DOMAIN sqlEvent.AfterValues) = 2
  /\ Cardinality(DOMAIN sqlEvent.BeforeValues) = 2
  /\ sqlEvent.AfterValues # sqlEvent.BeforeValues
  /\ rollbackSQL # <<>>

\* C30: once the sql handler has handled an UPDATE event with an empty
\* after-image, or a DELETE event with an empty before-image, the generator
\* has returned no statement (the empty string) and nothing was printed; and
\* GenerateUpdateSQL and GenerateDeleteSQL return nothing else for it.
C30_EmptyImageSuppressed ==
  (/\ pcForward = "handled"
   /\ \/ sqlEvent.Action = "UPDATE" /\ DOMAIN sqlEvent.AfterValues = {}
      \/ sqlEvent.Action = "DELETE" /\ DOMAIN sqlEvent.BeforeValues = {}) =>
    /\ forwardSQL = <<>>
    /\ stdout = <<>>
    /\ sqlEvent.Action = "UPDATE" => GenerateUpdateSQL(sqlEvent) = {<<>>}
    /\ sqlEvent.Action = "DELETE" => GenerateDeleteSQL(sqlEvent) = {<<>>}

C30_Witness ==
  /\ pcForward = "handled"
  /\ sqlEvent.Action = "UPDATE"
  /\ DOMAIN sqlEvent.AfterValues = {}
  /\ Cardinality(DOMAIN sqlEvent.BeforeValues) = 2
  /\ hasColumnNames
  /\ stdout = <<>>

\* one step of a MySQL lexer, on the piece at position i of a statement: a
\* name runs from a backquote to the next backquote that is not doubled, a
\* doubled backquote stands for one backquote of the name, and a string
\* literal runs from a quote to the next quote that is not escaped.  mode is
\* "out", "name" or "str"; acc is the name read so far; skip says that the
\* piece was consumed together with the one before it.
ScanStep(stmt, i, st) ==
  IF st.skip THEN [st EXCEPT !.skip = FALSE]
  ELSE IF st.mode = "out" THEN
    IF stmt[i] = Backtick THEN [st EXCEPT !.mode = "name", !.acc = <<>>]
    ELSE IF stmt[i] = "'" THEN [st EXCEPT !.mode = "str"]
    ELSE st
  ELSE IF st.mode = "name" THEN
    IF stmt[i] = Backtick /\ i < Len(stmt) /\ stmt[i + 1] = Backtick
    THEN [st EXCEPT !.acc = Append(@, Backtick), !.skip = TRUE]
    ELSE IF stmt[i] = Backtick
    THEN [st EXCEPT !.mode = "out", !.acc = <<>>, !.names = Append(@, st.acc)]
    ELSE [st EXCEPT !.acc = Append(@, stmt[i])]
  ELSE
    IF stmt[i] = "\\" THEN [st EXCEPT !.skip = TRUE]
    ELSE IF stmt[i] = "'" THEN [st EXCEPT !.mode = "out"]
    ELSE st

\* the lexer run over the pieces lo..hi, one half after the other; the
\* state after the left half is computed before the right half is entered
RECURSIVE ScanNames(_, _, _, _)
ScanNames(stmt, lo, hi, st) ==
  IF lo > hi THEN st
  ELSE IF lo = hi THEN ScanStep(stmt, lo, st)
  ELSE LET mid == (lo + hi) \div 2
           left == ScanNames(stmt, lo, mid, st)
       IN  IF left.mode \in {"out", "name", "str"}
           THEN ScanNames(stmt, mid + 1, hi, left)
           ELSE left

\* the quoted identifiers of a statement, and whether it ends outside of
\* every name and literal
QuotedNames(stmt) ==
  LET st == ScanNames(stmt, 1, Len(stmt),
                      [mode |-> "out", acc |-> <<>>, names |-> <<>>,
                       skip |-> FALSE])
  IN  [ok |-> st.mode = "out", names |-> st.names]

\* a line of the output without its closing semicolon
WithoutSemicolon(line) == SubSeq(line, 1, Len(line) - 1)

\* the statements that were returned, buffered or printed
EmittedStatements ==
  ({forwardSQL, rollbackSQL}
     \cup {buffer[i] : i \in DOMAIN buffer}
     \cup {WithoutSemicolon(stdout[i]) :
            i \in {j \in DOMAIN stdout :
                     stdout[j][1] \in {"INSERT INTO ", "UPDATE ", "DELETE FROM "}}})
    \ {<<>>}

\* C31: in every statement that is returned, buffered or printed, the
\* quoted identifiers, read back by the quoting rule of MySQL, are the
\* schema name, the table name and then column names of the event: no
\* backquote of a name ends the identifier early.
C31_NamesQuoted ==
  \A stmt \in EmittedStatements :
    LET q == QuotedNames(stmt) IN
      /\ q.ok
      /\ Len(q.names) >= 3
      /\ q.names[1] = sqlEvent.Database
      /\ q.names[2] = sqlEvent.Table
      /\ \A i \in 3..Len(q.names) :
           q.names[i] \in DOMAIN sqlEvent.AfterValues \cup DOMAIN sqlEvent.BeforeValues

C31_Witness ==
  /\ pcForward = "handled"
  /\ sqlEvent.Action = "INSERT"
  /\ Backtick \in {sqlEvent.Database[i] : i \in DOMAIN sqlEvent.Database}
  /\ <<"n", Backtick>> \in DOMAIN sqlEvent.AfterValues
  /\ forwardSQL \in EmittedStatements
  /\ Len(stdout) = 3

\* C38: every UPDATE statement that is returned, buffered or printed has
\* at least one term after WHERE.
C38_UpdateHasPredicate ==
  \A stmt \in EmittedStatements :
    stmt[1] = "UPDATE " => stmt[Len(stmt)] # " WHERE "

(***************************************************************************)
(* The data sources: FileSource and MySQLSource (pkg/source).              *)
(*                                                                         *)
(* A raw event is what the go-mysql parser or syncer hands over: its       *)
(* header (type, timestamp) and its body.  For a rows event, table says    *)
(* whether e.Table is set, bitmap is ColumnBitmap1 (a sequence of bytes)   *)
(* and rows are the row images, each a sequence of values.                 *)
(***************************************************************************)
\* number of raw events a file holds or a server sends
MaxRaw == 2
\* capacity of fs.eventChan (100 in the program, scaled down)
eventChanSize == 1
\* Table.ColumnCount of the table of the rows events
ColumnCount == 2

RawEvent(type, ts, table, bitmap, rows, query) ==
  [type |-> type, ts |-> ts, table |-> table, bitmap |-> bitmap,
   rows |-> rows, query |-> query]

RowsTypes == {"WRITE_ROWS", "UPDATE_ROWS", "DELETE_ROWS"}

\* the schema, the table and the table id of the table map of the rows events
RawSchema == <<"d">>

RawTable == <<"t">>

RawTableID == 1

\* NextLogName of the rotate events
RawNextLogName == "bin.000002"

\* filepath.Base(fs.filePath), and the file a live source starts from
FirstLogName == "bin.000001"

\* models.Event as the sources fill it
SourceEvent(ts, type, logName) ==
  [Timestamp |-> ts, EventType |-> type, LogName |-> logName,
   Database |-> <<>>, Table |-> <<>>, Action |-> "", SQL |-> <<>>,
   BeforeValues |-> EmptyMap, AfterValues |-> EmptyMap]

\* columnBitmap[byteIdx] & (1 << bitIdx) != 0
BitSet(columnBitmap, colIdx) ==
  /\ (colIdx \div 8) < Len(columnBitmap)
  /\ (columnBitmap[(colIdx \div 8) + 1] \div TwoTo(colIdx % 8)) % 2 = 1

\* getIncludedColumnIndices: the columns whose bit is set, in rising order
RECURSIVE IncludedFrom(_, _, _)
IncludedFrom(colIdx, totalColumns, columnBitmap) ==
  IF colIdx >= totalColumns THEN <<>>
  ELSE (IF BitSet(columnBitmap, colIdx) THEN <<colIdx>> ELSE <<>>)
         \o IncludedFrom(colIdx + 1, totalColumns, columnBitmap)

getIncludedColumnIndices(totalColumns, columnBitmap) ==
  IncludedFrom(0, totalColumns, columnBitmap)

\* rowToMap (the same in both sources): value i of the row is stored under
\* col_<n>, n being the i-th included column
rowToMap(row, rowsEvent) ==
  IF ~rowsEvent.table THEN EmptyMap
  ELSE LET includedCols == getIncludedColumnIndices(ColumnCount, rowsEvent.bitmap)
           n == IF Len(row) < Len(includedCols) THEN Len(row) ELSE Len(includedCols)
       IN  [k \in {ColKey(includedCols[i]) : i \in 1..n} |->
              row[CHOOSE i \in 1..n : ColKey(includedCols[i]) = k]]

\* what convertEvent of a source returns: an event, an error, or nil
Returned(event) == [kind |-> "event", err |-> "", event |-> event]

Failed(err, event) == [kind |-> "err", err |-> err, event |-> event]

Dropped == [kind |-> "nil", err |-> "", event |-> SourceEvent(0, "", "")]

\* the Action parseRowsEvent and convertEvent give to a rows event
RowsAction(type) ==
  CASE type = "WRITE_ROWS" -> "INSERT"
    [] type = "UPDATE_ROWS" -> "UPDATE"
    [] type = "DELETE_ROWS" -> "DELETE"
    [] OTHER -> ""

\* FileSource.parseRowsEvent
parseRowsEvent(event, e) ==
  IF ~e.table THEN Failed("missing table map event", event)
  ELSE
    LET action == RowsAction(e.type)
        named == [event EXCEPT !.Database = RawSchema, !.Table = RawTable,
                               !.Action = action]
    IN  IF Len(e.rows) = 0 THEN Returned(named)
        ELSE IF Len(e.rows) > 1 /\ action = "UPDATE"
          THEN Returned([named EXCEPT !.AfterValues = rowToMap(e.rows[1], e),
                                      !.BeforeValues = rowToMap(e.rows[2], e)])
        ELSE IF Len(e.rows) > 1 /\ action \in {"DELETE", "UPDATE"}
          THEN Returned([named EXCEPT !.BeforeValues = rowToMap(e.rows[1], e),
                                      !.AfterValues = rowToMap(e.rows[2], e)])
        ELSE Returned([named EXCEPT !.AfterValues = rowToMap(e.rows[1], e)])

\* FileSource.convertEvent
fsConvertEvent(event) ==
  LET internalEvent == SourceEvent(event.ts, event.type, FirstLogName)
  IN  IF startTime # 0 /\ event.ts < startTime
        THEN Failed("before start time", SourceEvent(0, "", ""))
      ELSE IF endTime # 0 /\ event.ts > endTime
        THEN Failed("after end time", SourceEvent(0, "", ""))
      ELSE IF event.type \in RowsTypes THEN parseRowsEvent(internalEvent, event)
      ELSE IF event.type = "QUERY"
        THEN Returned([internalEvent EXCEPT !.SQL = event.query,
                                            !.Database = RawSchema,
                                            !.Action = "QUERY"])
      ELSE Returned(internalEvent)

\* unicode.ToUpper on the letters of the model
ToUpper(c) ==
  IF InSeq(LowerLetters, c) THEN UpperLetters[IndexOf(LowerLetters, c)] ELSE c

\* strings.TrimSpace
RECURSIVE TrimLeft(_)
TrimLeft(s) == IF s # <<>> /\ Head(s) = " " THEN TrimLeft(Tail(s)) ELSE s

RECURSIVE TrimRight(_)
TrimRight(s) ==
  IF s # <<>> /\ s[Len(s)] = " " THEN TrimRight(SubSeq(s, 1, Len(s) - 1)) ELSE s

TrimSpace(s) == TrimRight(TrimLeft(s))

\* the statement keywords extractAction looks for, in its order
ActionWords ==
  << <<"I","N","S","E","R","T">>, <<"U","P","D","A","T","E">>,
     <<"D","E","L","E","T","E">>, <<"C","R","E","A","T","E">>,
     <<"D","R","O","P">>, <<"A","L","T","E","R">>,
     <<"B","E","G","I","N">>, <<"C","O","M","M","I","T">> >>

ActionNames ==
  <<"INSERT", "UPDATE", "DELETE", "CREATE", "DROP", "ALTER", "BEGIN", "COMMIT">>

\* extractAction
extractAction(query) ==
  LET q == [i \in 1..Len(TrimSpace(query)) |-> ToUpper(TrimSpace(query)[i])]
      hits == {i \in 1..Len(ActionWords) : HasPrefixAt(q, 1, ActionWords[i])}
  IN  IF hits = {} THEN "QUERY"
      ELSE ActionNames[CHOOSE i \in hits : \A j \in hits : i <= j]

\* MySQLSource.convertEvent: the event it returns, or nil
msConvertEvent(ev) ==
  LET event == SourceEvent(ev.ts, ev.type, currentLogName)
  IN  IF ev.type = "QUERY"
        THEN Returned([event EXCEPT !.Database = RawSchema,
                                    !.Action = extractAction(ev.query)])
      ELSE IF ev.type \in RowsTypes
        THEN IF RawTableID \notin tableMap THEN Returned(event)
             ELSE LET named == [event EXCEPT !.Database = RawSchema,
                                             !.Table = RawTable,
                                             !.Action = RowsAction(ev.type)]
                  IN  CASE ev.type = "WRITE_ROWS" /\ Len(ev.rows) > 0 ->
                             Returned([named EXCEPT
                               !.AfterValues = rowToMap(ev.rows[1], ev)])
                        [] ev.type = "UPDATE_ROWS" /\ Len(ev.rows) >= 2 ->
                             Returned([named EXCEPT
                               !.BeforeValues = rowToMap(ev.rows[1], ev),
                               !.AfterValues = rowToMap(ev.rows[2], ev)])
                        [] ev.type = "DELETE_ROWS" /\ Len(ev.rows) > 0 ->
                             Returned([named EXCEPT
                               !.BeforeValues = rowToMap(ev.rows[1], ev)])
                        [] OTHER -> Returned(named)
      ELSE Dropped

\* what MySQLSource.convertEvent leaves in ms.tableMap
msTableMapAfter(ev) ==
  IF ev.type = "TABLE_MAP" THEN tableMap \cup {RawTableID} ELSE tableMap

\* what MySQLSource.convertEvent leaves in ms.currentLogName
msLogNameAfter(ev) ==
  IF ev.type = "ROTATE" THEN RawNextLogName ELSE currentLogName

(***************************************************************************)
(* The raw events a file may hold or a server may send, and the time       *)
(* ranges a command may configure.                                         *)
(***************************************************************************)
RowA == <<IntV(1), IntV(2)>>

RowB == <<IntV(1), IntV(3)>>

RowC == <<IntV(4), IntV(5)>>

RowD == <<IntV(4), IntV(6)>>

\* ColumnBitmap1 with the bits of both columns set, and of the second only
BothColumns == <<3>>

SecondColumn == <<2>>

RawTimes == {1, 2, 3}

RawPool ==
  UNION {
    { RawEvent("FORMAT_DESCRIPTION", ts, FALSE, <<>>, <<>>, <<>>),
      RawEvent("ROTATE", ts, FALSE, <<>>, <<>>, <<>>),
      RawEvent("TABLE_MAP", ts, FALSE, <<>>, <<>>, <<>>),
      RawEvent("XID", ts, FALSE, <<>>, <<>>, <<>>),
      RawEvent("GTID", ts, FALSE, <<>>, <<>>, <<>>),
      RawEvent("QUERY", ts, FALSE, <<>>, <<>>, <<"B","E","G","I","N">>),
      RawEvent("QUERY", ts, FALSE, <<>>, <<>>,
               <<" ","i","n","s","e","r","t"," ","t">>),
      RawEvent("WRITE_ROWS", ts, TRUE, BothColumns, <<>>, <<>>),
      RawEvent("WRITE_ROWS", ts, TRUE, BothColumns, <<RowA>>, <<>>),
      RawEvent("WRITE_ROWS", ts, TRUE, BothColumns, <<RowA, RowC>>, <<>>),
      RawEvent("WRITE_ROWS", ts, FALSE, BothColumns, <<RowA>>, <<>>),
      RawEvent("UPDATE_ROWS", ts, TRUE, BothColumns, <<RowA, RowB>>, <<>>),
      RawEvent("UPDATE_ROWS", ts, TRUE, BothColumns,
               <<RowA, RowB, RowC, RowD>>, <<>>),
      RawEvent("DELETE_ROWS", ts, TRUE, BothColumns, <<RowA>>, <<>>),
      RawEvent("DELETE_ROWS", ts, TRUE, BothColumns, <<RowA, RowC>>, <<>>),
      RawEvent("DELETE_ROWS", ts, TRUE, SecondColumn, << <<IntV(2)>> >>, <<>>) } :
    ts \in RawTimes }

\* <<start, end>>: no time range, or the range from 2 to 2
TimeRanges == {<<0, 0>>, <<2, 2>>}

(***************************************************************************)
(* A run of a command on a source: Open has succeeded, the processor has   *)
(* one worker, one handler and no pattern, and Start has launched the      *)
(* producer and the worker.  The context is not cancelled.                 *)
(***************************************************************************)
SourceInit ==
  /\ PipelineParked
  /\ CacheParked
  /\ SqlParked
  /\ MatcherParked
  /\ MonitorParked
  /\ CheckpointParked
  /\ ResumeParked
  /\ srcKind \in {"file", "mysql"}
  /\ \E range \in TimeRanges : startTime = range[1] /\ endTime = range[2]
  /\ rawStream = <<>>
  /\ pcReader = (IF srcKind = "file" THEN "parsing" ELSE "idle")
  /\ eof = FALSE
  /\ eventChan = <<>>
  /\ errChan = <<>>
  /\ tableMap = {}
  /\ currentLogName = (IF srcKind = "mysql" THEN FirstLogName ELSE "")
  /\ pcSrcProd = "loop"
  /\ readEof = FALSE
  /\ srcTaken = 0
  /\ srcReturned = <<>>
  /\ srcQueue = <<>>
  /\ srcClosed = FALSE
  /\ srcHandled = <<>>
  /\ pcSrcCons = "recv"

cfgSrcVars == <<srcKind, startTime, endTime>>

consSrcVars == <<srcClosed, srcHandled, pcSrcCons>>

msVars == <<tableMap, currentLogName>>

(***************************************************************************)
(* FileSource.readEvents, the goroutine Open starts.                       *)
(***************************************************************************)
\* onEvent: the parser has decoded the next event of the file
ReaderParse ==
  /\ pcReader = "parsing"
  /\ Len(rawStream) < MaxRaw
  /\ Len(eventChan) < eventChanSize
  /\ \E raw \in RawPool : rawStream' = Append(rawStream, raw)
  /\ eventChan' = Append(eventChan, Len(rawStream) + 1)
  /\ UNCHANGED outsideSource
  /\ UNCHANGED <<cfgSrcVars, consSrcVars, msVars, pcReader, eof, errChan,
                 pcSrcProd, readEof, srcTaken, srcReturned, srcQueue>>

\* ParseFile returns nil: the file is at its end
ReaderEof ==
  /\ pcReader = "parsing"
  /\ eof' = TRUE
  /\ pcReader' = "eof"
  /\ UNCHANGED outsideSource
  /\ UNCHANGED <<cfgSrcVars, consSrcVars, msVars, rawStream, eventChan, errChan,
                 pcSrcProd, readEof, srcTaken, srcReturned, srcQueue>>

\* ParseFile returns an error
ReaderFail ==
  /\ pcReader = "parsing"
  /\ eof' = TRUE
  /\ pcReader' = "failing"
  /\ UNCHANGED outsideSource
  /\ UNCHANGED <<cfgSrcVars, consSrcVars, msVars, rawStream, eventChan, errChan,
                 pcSrcProd, readEof, srcTaken, srcReturned, srcQueue>>

\* fs.errChan <- fmt.Errorf("failed to parse binlog file: %w", err)
ReaderSendErr ==
  /\ pcReader = "failing"
  /\ errChan' = Append(errChan, "failed to parse binlog file")
  /\ pcReader' = "eof"
  /\ UNCHANGED outsideSource
  /\ UNCHANGED <<cfgSrcVars, consSrcVars, msVars, rawStream, eof, eventChan,
                 pcSrcProd, readEof, srcTaken, srcReturned, srcQueue>>

\* defer close(fs.errChan), the first of the deferred calls to run
ReaderCloseErr ==
  /\ pcReader = "eof"
  /\ pcReader' = "errclosed"
  /\ UNCHANGED outsideSource
  /\ UNCHANGED <<cfgSrcVars, consSrcVars, msVars, rawStream, eof, eventChan,
                 errChan, pcSrcProd, readEof, srcTaken, srcReturned, srcQueue>>

\* defer close(fs.eventChan)
ReaderCloseEvent ==
  /\ pcReader = "errclosed"
  /\ pcReader' = "done"
  /\ UNCHANGED outsideSource
  /\ UNCHANGED <<cfgSrcVars, consSrcVars, msVars, rawStream, eof, eventChan,
                 errChan, pcSrcProd, readEof, srcTaken, srcReturned, srcQueue>>

\* fs.errChan is closed
ErrChanClosed == pcReader \in {"errclosed", "done"}

\* fs.eventChan is closed
EventChanClosed == pcReader = "done"

\* a receive from the channel would not block
EventChanReady == eventChan # <<>> \/ EventChanClosed

ErrChanReady == errChan # <<>> \/ ErrChanClosed

(***************************************************************************)
(* The producer of the processor on the source: HasMore, Read and what     *)
(* the loop does with the result of Read.                                  *)
(***************************************************************************)
\* the loop body after Read returned res for the raw event idx: an error
\* leaves the loop; an event passes the filter (no pattern) and is sent to
\* the channel of worker 0
AfterRead(res, idx) ==
  IF res.kind = "err"
  THEN /\ pcSrcProd' = "closing"
       /\ UNCHANGED <<srcReturned, srcQueue>>
  ELSE /\ pcSrcProd' = "loop"
       /\ srcReturned' = Append(srcReturned, [idx |-> idx, event |-> res.event])
       /\ srcQueue' = Append(srcQueue, [idx |-> idx, event |-> res.event])

\* for ep.dataSource.HasMore()
SrcHasMore ==
  /\ pcSrcProd = "loop"
  /\ LET hasMore == IF srcKind = "file" THEN ~eof \/ Len(eventChan) > 0
                    ELSE ~eof
     IN  pcSrcProd' = (IF hasMore THEN "read" ELSE "closing")
  /\ UNCHANGED outsideSource
  /\ UNCHANGED <<cfgSrcVars, consSrcVars, msVars, rawStream, pcReader, eof,
                 eventChan, errChan, readEof, srcTaken, srcReturned, srcQueue>>

\* FileSource.Read: eof and hasEvents are copied under the lock; at the end
\* of the file with nothing buffered Read returns the error "EOF"
FileReadBegin ==
  /\ srcKind = "file"
  /\ pcSrcProd = "read"
  /\ readEof' = eof
  /\ pcSrcProd' = (IF eof /\ Len(eventChan) = 0 THEN "closing" ELSE "select")
  /\ UNCHANGED outsideSource
  /\ UNCHANGED <<cfgSrcVars, consSrcVars, msVars, rawStream, pcReader, eof,
                 eventChan, errChan, srcTaken, srcReturned, srcQueue>>

\* either select of Read receives an event: return fs.convertEvent(event)
FileReadEvent ==
  /\ pcSrcProd \in {"select", "wait"}
  /\ eventChan # <<>>
  /\ eventChan' = Tail(eventChan)
  /\ srcTaken' = srcTaken + 1
  /\ AfterRead(fsConvertEvent(rawStream[Head(eventChan)]), Head(eventChan))
  /\ UNCHANGED outsideSource
  /\ UNCHANGED <<cfgSrcVars, consSrcVars, msVars, rawStream, pcReader, eof,
                 errChan, readEof>>

\* either select of Read receives from the closed, empty eventChan: "EOF"
FileReadEventClosed ==
  /\ pcSrcProd \in {"select", "wait"}
  /\ eventChan = <<>>
  /\ EventChanClosed
  /\ pcSrcProd' = "closing"
  /\ UNCHANGED outsideSource
  /\ UNCHANGED <<cfgSrcVars, consSrcVars, msVars, rawStream, pcReader, eof,
                 eventChan, errChan, readEof, srcTaken, srcReturned, srcQueue>>

\* either select of Read receives the parse error: return nil, err
FileReadErr ==
  /\ pcSrcProd \in {"select", "wait"}
  /\ errChan # <<>>
  /\ errChan' = Tail(errChan)
  /\ pcSrcProd' = "closing"
  /\ UNCHANGED outsideSource
  /\ UNCHANGED <<cfgSrcVars, consSrcVars, msVars, rawStream, pcReader, eof,
                 eventChan, readEof, srcTaken, srcReturned, srcQueue>>

\* either select of Read receives nil from the closed, empty errChan: "EOF".
\* A select with several ready cases takes any of them, so this case may be
\* taken while eventChan still holds events.
FileReadErrClosed ==
  /\ pcSrcProd \in {"select", "wait"}
  /\ errChan = <<>>
  /\ ErrChanClosed
  /\ pcSrcProd' = "closing"
  /\ UNCHANGED outsideSource
  /\ UNCHANGED <<cfgSrcVars, consSrcVars, msVars, rawStream, pcReader, eof,
                 eventChan, errChan, readEof, srcTaken, srcReturned, srcQueue>>

\* the default case of the first select: "EOF" if eof was set, else wait
FileReadDefault ==
  /\ pcSrcProd = "select"
  /\ ~EventChanReady
  /\ ~ErrChanReady
  /\ pcSrcProd' = (IF readEof THEN "closing" ELSE "wait")
  /\ UNCHANGED outsideSource
  /\ UNCHANGED <<cfgSrcVars, consSrcVars, msVars, rawStream, pcReader, eof,
                 eventChan, errChan, readEof, srcTaken, srcReturned, srcQueue>>

\* time.After(100 * time.Millisecond): Read returns nil, nil; the producer
\* sleeps and goes round the loop
FileReadTimeout ==
  /\ pcSrcProd = "wait"
  /\ ~EventChanReady
  /\ ~ErrChanReady
  /\ pcSrcProd' = "loop"
  /\ UNCHANGED outsideSource
  /\ UNCHANGED <<cfgSrcVars, consSrcVars, msVars, rawStream, pcReader, eof,
                 eventChan, errChan, readEof, srcTaken, srcReturned, srcQueue>>

\* MySQLSource.Read: ms.eof is not set (nothing sets it after Open) and
\* GetEvent gives the next event of the server; when convertEvent returns
\* nil Read calls itself and waits for the next one
MySqlReadEvent ==
  /\ srcKind = "mysql"
  /\ pcSrcProd = "read"
  /\ ~eof
  /\ Len(rawStream) < MaxRaw
  /\ \E ev \in RawPool :
       /\ rawStream' = Append(rawStream, ev)
       /\ tableMap' = msTableMapAfter(ev)
       /\ currentLogName' = msLogNameAfter(ev)
       /\ IF msConvertEvent(ev).kind = "nil"
          THEN UNCHANGED <<pcSrcProd, srcReturned, srcQueue>>
          ELSE AfterRead(msConvertEvent(ev), Len(rawStream) + 1)
  /\ srcTaken' = srcTaken + 1
  /\ UNCHANGED outsideSource
  /\ UNCHANGED <<cfgSrcVars, consSrcVars, pcReader, eof, eventChan, errChan,
                 readEof>>

\* MySQLSource.Read: GetEvent returns an error
MySqlReadError ==
  /\ srcKind = "mysql"
  /\ pcSrcProd = "read"
  /\ ~eof
  /\ pcSrcProd' = "closing"
  /\ UNCHANGED outsideSource
  /\ UNCHANGED <<cfgSrcVars, consSrcVars, msVars, rawStream, pcReader, eof,
                 eventChan, errChan, readEof, srcTaken, srcReturned, srcQueue>>

\* the deferred function of the producer closes the worker channel
SrcProducerClose ==
  /\ pcSrcProd = "closing"
  /\ pcSrcProd' = "done"
  /\ srcClosed' = TRUE
  /\ UNCHANGED outsideSource
  /\ UNCHANGED <<cfgSrcVars, msVars, rawStream, pcReader, eof, eventChan,
                 errChan, readEof, srcTaken, srcReturned, srcQueue,
                 srcHandled, pcSrcCons>>

\* consumer: an event is received and handleEvent gives it to the handler
SrcConsume ==
  /\ pcSrcCons = "recv"
  /\ srcQueue # <<>>
  /\ srcHandled' = Append(srcHandled, Head(srcQueue))
  /\ srcQueue' = Tail(srcQueue)
  /\ UNCHANGED outsideSource
  /\ UNCHANGED <<cfgSrcVars, msVars, rawStream, pcReader, eof, eventChan,
                 errChan, pcSrcProd, readEof, srcTaken, srcReturned,
                 srcClosed, pcSrcCons>>

\* consumer: the channel is closed and empty
SrcConsumerExit ==
  /\ pcSrcCons = "recv"
  /\ srcQueue = <<>>
  /\ srcClosed
  /\ pcSrcCons' = "done"
  /\ UNCHANGED outsideSource
  /\ UNCHANGED <<cfgSrcVars, msVars, rawStream, pcReader, eof, eventChan,
                 errChan, pcSrcProd, readEof, srcTaken, srcReturned,
                 srcQueue, srcClosed, srcHandled>>

SourceNext ==
  \/ ReaderParse
  \/ ReaderEof
  \/ ReaderFail
  \/ ReaderSendErr
  \/ ReaderCloseErr
  \/ ReaderCloseEvent
  \/ SrcHasMore
  \/ FileReadBegin
  \/ FileReadEvent
  \/ FileReadEventClosed
  \/ FileReadErr
  \/ FileReadErrClosed
  \/ FileReadDefault
  \/ FileReadTimeout
  \/ MySqlReadEvent
  \/ MySqlReadError
  \/ SrcProducerClose
  \/ SrcConsume
  \/ SrcConsumerExit

SourceSpec == SourceInit /\ [][SourceNext]_vars

(***************************************************************************)
(* Claims about the sources.                                               *)
(***************************************************************************)
\* the timestamp lies in the configured time range
InTimeRange(raw) ==
  /\ startTime = 0 \/ raw.ts >= startTime
  /\ endTime = 0 \/ raw.ts <= endTime

\* the rows event j of the stream can be decoded: its table is known and,
\* for a file with a time range, its timestamp lies in the range
Decodable(j) ==
  /\ rawStream[j].type \in RowsTypes
  /\ rawStream[j].table
  /\ srcKind = "file" => InTimeRange(rawStream[j])
  /\ srcKind = "mysql" => \E i \in 1..(j - 1) : rawStream[i].type = "TABLE_MAP"

\* the events Read returned for the raw event j, in order
ReturnedFor(j) == SelectSeq(srcReturned, LAMBDA r : r.idx = j)

\* C21: for every decodable Update-Rows event that Read has taken, with 2k
\* row images, Read returned exactly k events, the i-th being an UPDATE whose
\* before-image is image 2i and whose after-image is image 2i+1 (counting
\* the images and the events from 0).
C21_UpdateRowPairs ==
  \A j \in 1..srcTaken :
    (Decodable(j) /\ rawStream[j].type = "UPDATE_ROWS") =>
      LET raw == rawStream[j]
          k == Len(raw.rows) \div 2
          got == ReturnedFor(j)
      IN  /\ Len(got) = k
          /\ \A i \in 1..k :
               /\ got[i].event.Action = "UPDATE"
               /\ got[i].event.BeforeValues = rowToMap(raw.rows[2 * i - 1], raw)
               /\ got[i].event.AfterValues = rowToMap(raw.rows[2 * i], raw)

\* C22: every event Read returned for a decodable Write-Rows or Delete-Rows
\* event with at least one row image has, as an INSERT, an empty
\* before-image and a non-empty after-image and, as a DELETE, an empty
\* after-image and a non-empty before-image.
C22_InsertDeleteImages ==
  \A n \in 1..Len(srcReturned) :
    LET r == srcReturned[n]
    IN  (Decodable(r.idx) /\ Len(rawStream[r.idx].rows) > 0) =>
          /\ r.event.Action = "INSERT" =>
               /\ DOMAIN r.event.BeforeValues = {}
               /\ DOMAIN r.event.AfterValues # {}
          /\ r.event.Action = "DELETE" =>
               /\ DOMAIN r.event.AfterValues = {}
               /\ DOMAIN r.event.BeforeValues # {}

\* the raw events that produce no event
SilentTypes == {"FORMAT_DESCRIPTION", "ROTATE", "TABLE_MAP", "XID", "GTID"}

\* C23: no event that Read returned, that is in the worker queue or that
\* the handler was called with was made from a format-description, rotate,
\* table-map, transaction-commit or unknown raw event.
C23_SilentEventsProduceNothing ==
  /\ \A n \in 1..Len(srcReturned) :
       rawStream[srcReturned[n].idx].type \notin SilentTypes
  /\ \A n \in 1..Len(srcQueue) :
       rawStream[srcQueue[n].idx].type \notin SilentTypes
  /\ \A n \in 1..Len(srcHandled) :
       rawStream[srcHandled[n].idx].type \notin SilentTypes

\* C24: when the Read of a file source takes an event whose timestamp lies
\* outside the time range, that event alone is dropped: no event is returned
\* for it and the producer does not leave its loop, so the events after it
\* are still read.
C24_OutOfRangeDroppedAlone ==
  [][(/\ srcKind = "file"
      /\ srcTaken' = srcTaken + 1
      /\ ~InTimeRange(rawStream[Head(eventChan)]))
       => (srcReturned' = srcReturned /\ pcSrcProd' # "closing")]_vars

\* C25: when the Read of a live source with an end time takes an event whose
\* timestamp is after the end time, the source signals the end of the stream
\* (ms.eof is set and no event is returned) and the producer leaves its loop
\* to close the queues.
C25_LiveSourceStopsAtEndTime ==
  [][(/\ srcKind = "mysql"
      /\ endTime # 0
      /\ srcTaken' = srcTaken + 1
      /\ rawStream'[Len(rawStream')].ts > endTime)
       => (eof' /\ srcReturned' = srcReturned /\ pcSrcProd' = "closing")]_vars

\* C37: a Read of the file source that returns the end-of-stream error
\* "EOF" (it takes nothing from either channel) finds no event left in
\* fs.eventChan: every event the parser handed over was returned before.
C37_EofAfterAllEvents ==
  [][(/\ srcKind = "file"
      /\ pcSrcProd \in {"read", "select", "wait"}
      /\ pcSrcProd' = "closing"
      /\ eventChan' = eventChan
      /\ errChan' = errChan)
       => eventChan = <<>>]_vars

(***************************************************************************)
(* The pattern compiler: NewRangeMatcher, parseToRegex, parseRange         *)
(* (pkg/util) and NewRouteFilter (pkg/filter).  A pattern is a sequence of *)
(* characters; the compiled regexp is the sequence of pieces defined       *)
(* above.  An error is a non-empty string, "" is nil.                      *)
(***************************************************************************)
\* position of the first c in s at or after position from, 0 if there is none
FirstIndex(s, from, c) ==
  IF \E j \in from..Len(s) : s[j] = c
  THEN CHOOSE j \in from..Len(s) :
         s[j] = c /\ \A m \in from..(j - 1) : s[m] # c
  ELSE 0

\* strings.Split(s, sep) for a one-character sep
RECURSIVE Split(_, _)
Split(s, sep) ==
  LET j == FirstIndex(s, 1, sep)
  IN  IF j = 0 THEN <<s>>
      ELSE <<SubSeq(s, 1, j - 1)>> \o Split(SubSeq(s, j + 1, Len(s)), sep)

\* the value of a sequence of decimal digits
RECURSIVE DigitsValue(_)
DigitsValue(s) ==
  IF s = <<>> THEN 0
  ELSE 10 * DigitsValue(SubSeq(s, 1, Len(s) - 1)) + (IndexOf(Digits, s[Len(s)]) - 1)

\* strconv.Atoi: an optional sign and one or more decimal digits (the
\* numbers of the patterns fit an int)
Atoi(s) ==
  LET signed == s # <<>> /\ Head(s) \in {"+", "-"}
      digits == IF signed THEN Tail(s) ELSE s
  IN  IF digits = <<>> \/ \E i \in 1..Len(digits) : ~InSeq(Digits, digits[i])
      THEN [err |-> "invalid syntax", n |-> 0]
      ELSE [err |-> "",
            n |-> IF signed /\ Head(s) = "-" THEN 0 - DigitsValue(digits)
                  ELSE DigitsValue(digits)]

\* a parseRange that takes a bound that is not an integer for 0
parseRangeLenient(s) ==
  LET parts == Split(s, "-")
  IN  IF Len(parts) # 2 THEN [err |-> "", start |-> 0, end |-> 0]
      ELSE LET a == Atoi(TrimSpace(parts[1])).n
               b == Atoi(TrimSpace(parts[2])).n
           IN  [err |-> "", start |-> IF a > b THEN b ELSE a,
                end |-> IF a > b THEN a ELSE b]

parseRange(s) ==
  LET parts == Split(s, "-")
  IN  IF Len(parts) # 2 THEN [err |-> "bad range format", start |-> 0, end |-> 0]
      ELSE LET a == Atoi(TrimSpace(parts[1]))
               b == Atoi(TrimSpace(parts[2]))
           IN  IF a.err # "" THEN [err |-> a.err, start |-> 0, end |-> 0]
               ELSE IF b.err # "" THEN [err |-> b.err, start |-> 0, end |-> 0]
               ELSE IF a.n > b.n THEN [err |-> "", start |-> b.n, end |-> a.n]
               ELSE [err |-> "", start |-> a.n, end |-> b.n]

\* the loop of parseToRegex from position i (counted from 1), re being the
\* pieces written so far
RECURSIVE ParseFrom(_, _, _)
ParseFrom(pat, i, re) ==
  IF i > Len(pat) THEN [err |-> "", re |-> re]
  ELSE IF pat[i] = "*" THEN ParseFrom(pat, i + 1, Append(re, Star))
  ELSE IF pat[i] = "["
    THEN LET j == FirstIndex(pat, i + 1, "]")
         IN  IF j = 0 THEN [err |-> "missing closing ']'", re |-> <<>>]
             ELSE LET range == parseRange(SubSeq(pat, i + 1, j - 1))
                  IN  IF range.err # "" THEN [err |-> range.err, re |-> <<>>]
                      ELSE ParseFrom(pat, j + 1,
                             Append(re, Alt({Itoa(k) : k \in range.start..range.end})))
  ELSE ParseFrom(pat, i + 1, Append(re, Lit(pat[i])))

\* parseToRegex; regexp.Compile accepts what the loop writes
parseToRegex(pat) == ParseFrom(pat, 1, <<>>)

\* NewRangeMatcher
NewRangeMatcher(pat) == parseToRegex(pat)

\* the loop of NewRouteFilter from pattern i, rms being the matchers so far
RECURSIVE RouteFilterFrom(_, _, _)
RouteFilterFrom(strs, i, rms) ==
  IF i > Len(strs) THEN [err |-> "", rangeMatcher |-> rms]
  ELSE LET m == NewRangeMatcher(strs[i])
       IN  IF m.err # "" THEN [err |-> m.err, rangeMatcher |-> <<>>]
           ELSE RouteFilterFrom(strs, i + 1, Append(rms, m.re))

\* NewRouteFilter
NewRouteFilter(strs) == RouteFilterFrom(strs, 1, <<>>)

(***************************************************************************)
(* The patterns a command may be given and the inputs Match may be given.  *)
(***************************************************************************)
\* number of pieces a pattern is put together from
MaxPieces == 2
\* length of the inputs of Match
MaxInputLen == 3
\* the greatest width of a range that is to be accepted (1,000,000, scaled
\* down)
RangeLimit == 3

PatternPieces ==
  { <<"a">>, <<"*">>, <<"]">>, <<"[">>,
    <<"[", "1", "-", "3", "]">>, <<"[", "3", "-", "1", "]">>,
    <<"[", "1", "-", "9", "]">>, <<"[", "1", "-">>,
    <<"[", "a", "-", "3", "]">>, <<"[", "1", "-", "b", "]">>,
    <<"[", "]">>, <<"[", "1", "]">>,
    <<"[", " ", "1", " ", "-", " ", "2", " ", "]">>,
    <<"[", "+", "1", "-", "2", "]">>,
    <<"[", "1", "-", "2", "-", "3", "]">> }

RECURSIVE PatternsOf(_)
PatternsOf(n) ==
  IF n = 1 THEN PatternPieces
  ELSE PatternsOf(n - 1) \cup {p \o q : p \in PatternsOf(n - 1), q \in PatternPieces}

Patterns == PatternsOf(MaxPieces)

InputChars == {"a", "1", "x"}

MatchInputs == UNION {[1..n -> InputChars] : n \in 0..MaxInputLen}

\* a pattern that compiles, given to NewRouteFilter before the other one
GoodPattern == <<"a">>

\* a command is given one or two patterns and a name to match
MatcherInit ==
  /\ PipelineParked
  /\ CacheParked
  /\ SqlParked
  /\ SourceParked
  /\ MonitorParked
  /\ CheckpointParked
  /\ ResumeParked
  /\ pattern \in Patterns
  /\ matcher = NoMatcher
  /\ matchInput \in MatchInputs
  /\ matchResult = ""
  /\ pcMatcher = "new"
  /\ schemaTableRegexStr \in {<<pattern>>, <<GoodPattern, pattern>>}
  /\ routeFilter = [err |-> "", rangeMatcher |-> <<>>]
  /\ pcCommand = "new"

\* m, err := NewRangeMatcher(pattern)
CallNewRangeMatcher ==
  /\ pcMatcher = "new"
  /\ matcher' = NewRangeMatcher(pattern)
  /\ pcMatcher' = (IF NewRangeMatcher(pattern).err # "" THEN "failed" ELSE "compiled")
  /\ UNCHANGED outsideMatcher
  /\ UNCHANGED <<pattern, matchInput, matchResult, schemaTableRegexStr,
                 routeFilter, pcCommand>>

\* m.Match(input)
CallMatch ==
  /\ pcMatcher = "compiled"
  /\ matchResult' = (IF RangeMatcherMatch(matcher.re, matchInput) THEN "true"
                     ELSE "false")
  /\ pcMatcher' = "matched"
  /\ UNCHANGED outsideMatcher
  /\ UNCHANGED <<pattern, matcher, matchInput, schemaTableRegexStr,
                 routeFilter, pcCommand>>

\* the command: rf, err := filter.NewRouteFilter(cfg.SchemaTableRegex);
\* on an error it returns the error
CallNewRouteFilter ==
  /\ pcCommand = "new"
  /\ routeFilter' = NewRouteFilter(schemaTableRegexStr)
  /\ pcCommand' = (IF NewRouteFilter(schemaTableRegexStr).err # "" THEN "failed"
                   ELSE "built")
  /\ UNCHANGED outsideMatcher
  /\ UNCHANGED <<pattern, matcher, matchInput, matchResult, pcMatcher,
                 schemaTableRegexStr>>

\* the command: NewEventProcessor, AddHandler and proc.Start()
CommandStart ==
  /\ pcCommand = "built"
  /\ pcCommand' = "started"
  /\ UNCHANGED outsideMatcher
  /\ UNCHANGED <<pattern, matcher, matchInput, matchResult, pcMatcher,
                 schemaTableRegexStr, routeFilter>>

MatcherNext ==
  \/ CallNewRangeMatcher
  \/ CallMatch
  \/ CallNewRouteFilter
  \/ CommandStart

MatcherSpec == MatcherInit /\ [][MatcherNext]_vars

(***************************************************************************)
(* Claims about the patterns.                                              *)
(***************************************************************************)
\* the pieces re[k..] match exactly s[i..], to its last character
RECURSIVE ReMatchWhole(_, _, _, _)
ReMatchWhole(re, k, s, i) ==
  IF k > Len(re) THEN i = Len(s) + 1
  ELSE IF re[k].t = "lit"
    THEN i <= Len(s) /\ s[i] = re[k].c /\ ReMatchWhole(re, k + 1, s, i + 1)
  ELSE IF re[k].t = "class"
    THEN \E j \in i..Len(s) :
           /\ \A p \in i..j : IsWordChar(s[p])
           /\ ReMatchWhole(re, k + 1, s, j + 1)
  ELSE \E n \in re[k].nums :
           HasPrefixAt(s, i, n) /\ ReMatchWhole(re, k + 1, s, i + Len(n))

Unterminated(p) ==
  \E i \in 1..Len(p) : p[i] = "[" /\ \A j \in (i + 1)..Len(p) : p[j] # "]"

\* a decimal integer: digits, with an optional sign, spaces around it allowed
DecimalInteger(s) ==
  LET t == TrimSpace(s)
      d == IF t # <<>> /\ Head(t) \in {"+", "-"} THEN Tail(t) ELSE t
  IN  d # <<>> /\ \A i \in 1..Len(d) : InSeq(Digits, d[i])

\* what stands between a [ of the pattern and the next ]
BracketContents(p) ==
  {SubSeq(p, i + 1, FirstIndex(p, i + 1, "]") - 1) :
     i \in {n \in 1..Len(p) : p[n] = "[" /\ FirstIndex(p, n + 1, "]") # 0}}

\* the content of a bracket is not two decimal integers around a -
BadBounds(c) ==
  ~\E d \in 1..Len(c) :
      /\ c[d] = "-"
      /\ DecimalInteger(SubSeq(c, 1, d - 1))
      /\ DecimalInteger(SubSeq(c, d + 1, Len(c)))

InvalidPattern(p) ==
  Unterminated(p) \/ \E c \in BracketContents(p) : BadBounds(c)

\* C27: compiling a pattern with an unterminated [ or with a bracket whose
\* bounds are not both decimal integers returns an error and no matcher, and
\* NewRouteFilter given such a pattern returns an error, on which the command
\* returns without starting a pipeline.
C27_InvalidPatternRejected ==
  /\ (pcMatcher # "new" /\ InvalidPattern(pattern)) =>
       (pcMatcher = "failed" /\ matcher.err # "" /\ matcher.re = <<>>)
  /\ (pcCommand # "new"
        /\ \E i \in 1..Len(schemaTableRegexStr) :
             InvalidPattern(schemaTableRegexStr[i])) =>
       (pcCommand = "failed" /\ routeFilter.err # ""
          /\ routeFilter.rangeMatcher = <<>>)

C27_Witness ==
  /\ pcMatcher = "failed"
  /\ pcCommand = "failed"
  /\ Len(schemaTableRegexStr) = 2
  /\ ~Unterminated(pattern)
  /\ \E c \in BracketContents(pattern) : BadBounds(c)

\* C28: compiling a pattern that holds a range [a-b] with |b - a| greater
\* than the limit returns an error.
C28_WideRangeRejected ==
  (/\ pcMatcher # "new"
   /\ \E c \in BracketContents(pattern) :
        /\ parseRange(c).err = ""
        /\ parseRange(c).end - parseRange(c).start > RangeLimit) =>
    matcher.err # ""

(***************************************************************************)
(* Claims about the routing key.                                           *)
(***************************************************************************)
\* the stringified values an image may yield first
FirstValues(image) == {Sprint(image[c]) : c \in DOMAIN image}

\* the key of an event: the first value of the after-image, else of the
\* before-image, else the empty string
KeyOf(event) ==
  IF DOMAIN event.AfterValues # {} THEN FirstValues(event.AfterValues)
  ELSE IF DOMAIN event.BeforeValues # {} THEN FirstValues(event.BeforeValues)
  ELSE {<<>>}

\* C29: the key the producer computes for an event it routes is the first
\* value of the after-image when that is not empty, otherwise the first
\* value of the before-image, otherwise the empty string; the key may carry
\* the table and a colon in front of the value.
C29_KeyFromAfterElseBefore ==
  \A i \in DOMAIN routed :
    \E k \in KeyOf(events[i]) :
      \/ routed[i].key = k
      \/ routed[i].key = events[i].Table \o <<":">> \o k


(***************************************************************************)
(* The monitor (pkg/monitor) shared by the workers, and the stat handler   *)
(* (cmd/stat.go).  The monitor has no lock and no atomic operation: an     *)
(* increment m.count++ is a load and a store of the field, and two workers *)
(* may interleave them.  statHandler.Handle runs under sh.mu.              *)
(***************************************************************************)
\* number of calls made on the monitor
MaxMonCalls == 3
\* number of events the stat handler handles
MaxStatEvents == 2

\* durations of the methods measured, raw-data lengths of the events
Durations == {0, 1, 2}

EventSizes == {0, 1, 2}

\* NewMonitor(cfg.SlowThreshold, cfg.EventSizeThreshold), and the stat
\* handler created with cfg.EventSizeThreshold
MonitorInit ==
  /\ PipelineParked
  /\ CacheParked
  /\ SqlParked
  /\ SourceParked
  /\ MatcherParked
  /\ CheckpointParked
  /\ ResumeParked
  /\ slowThreshold \in {0, 1}
  /\ eventSizeThreshold \in {-1, 0, 1}
  /\ slowMethodCount = 0
  /\ largeEventCount = 0
  /\ maxEventSize = 0
  /\ pcMon = [w \in MonWorkers |-> "idle"]
  /\ monReg = [w \in MonWorkers |-> 0]
  /\ monSize = [w \in MonWorkers |-> 0]
  /\ monCalls = <<>>
  /\ statLargeEvents = 0
  /\ statHandled = <<>>

monCfgVars == <<slowThreshold, eventSizeThreshold>>

statVars == <<statLargeEvents, statHandled>>

\* LogSlowMethod up to the test of the duration
LogSlowMethod(w, duration) ==
  /\ pcMon[w] = "idle"
  /\ Len(monCalls) < MaxMonCalls
  /\ monCalls' = Append(monCalls, [method |-> "LogSlowMethod", value |-> duration])
  /\ pcMon' = [pcMon EXCEPT ![w] =
                 IF duration > slowThreshold THEN "slowLoad" ELSE "idle"]
  /\ UNCHANGED outsideMonitor
  /\ UNCHANGED <<monCfgVars, statVars, slowMethodCount, largeEventCount,
                 maxEventSize, monReg, monSize>>

\* m.slowMethodCount++ : the load
SlowCountLoad(w) ==
  /\ pcMon[w] = "slowLoad"
  /\ monReg' = [monReg EXCEPT ![w] = slowMethodCount]
  /\ pcMon' = [pcMon EXCEPT ![w] = "slowStore"]
  /\ UNCHANGED outsideMonitor
  /\ UNCHANGED <<monCfgVars, statVars, slowMethodCount, largeEventCount,
                 maxEventSize, monSize, monCalls>>

\* m.slowMethodCount++ : the store, and the return after the log line
SlowCountStore(w) ==
  /\ pcMon[w] = "slowStore"
  /\ slowMethodCount' = monReg[w] + 1
  /\ pcMon' = [pcMon EXCEPT ![w] = "idle"]
  /\ UNCHANGED outsideMonitor
  /\ UNCHANGED <<monCfgVars, statVars, largeEventCount, maxEventSize, monReg,
                 monSize, monCalls>>

\* whether CheckEventSize goes on to count an event of this size
CountsAsLarge(eventSize) ==
  ~(eventSizeThreshold <= 0) /\ eventSize > eventSizeThreshold

\* CheckEventSize up to the test of the size
CheckEventSize(w, eventSize) ==
  /\ pcMon[w] = "idle"
  /\ Len(monCalls) < MaxMonCalls
  /\ monCalls' = Append(monCalls, [method |-> "CheckEventSize", value |-> eventSize])
  /\ monSize' = [monSize EXCEPT ![w] = eventSize]
  /\ pcMon' = [pcMon EXCEPT ![w] =
                 IF CountsAsLarge(eventSize) THEN "largeLoad" ELSE "idle"]
  /\ UNCHANGED outsideMonitor
  /\ UNCHANGED <<monCfgVars, statVars, slowMethodCount, largeEventCount,
                 maxEventSize, monReg>>

\* m.largeEventCount++ : the load
LargeCountLoad(w) ==
  /\ pcMon[w] = "largeLoad"
  /\ monReg' = [monReg EXCEPT ![w] = largeEventCount]
  /\ pcMon' = [pcMon EXCEPT ![w] = "largeStore"]
  /\ UNCHANGED outsideMonitor
  /\ UNCHANGED <<monCfgVars, statVars, slowMethodCount, largeEventCount,
                 maxEventSize, monSize, monCalls>>

\* m.largeEventCount++ : the store
LargeCountStore(w) ==
  /\ pcMon[w] = "largeStore"
  /\ largeEventCount' = monReg[w] + 1
  /\ pcMon' = [pcMon EXCEPT ![w] = "maxTest"]
  /\ UNCHANGED outsideMonitor
  /\ UNCHANGED <<monCfgVars, statVars, slowMethodCount, maxEventSize, monReg,
                 monSize, monCalls>>

\* if eventSize > m.maxEventSize
MaxSizeTest(w) ==
  /\ pcMon[w] = "maxTest"
  /\ pcMon' = [pcMon EXCEPT ![w] =
                 IF monSize[w] > maxEventSize THEN "maxStore" ELSE "idle"]
  /\ UNCHANGED outsideMonitor
  /\ UNCHANGED <<monCfgVars, statVars, slowMethodCount, largeEventCount,
                 maxEventSize, monReg, monSize, monCalls>>

\* m.maxEventSize = eventSize
MaxSizeStore(w) ==
  /\ pcMon[w] = "maxStore"
  /\ maxEventSize' = monSize[w]
  /\ pcMon' = [pcMon EXCEPT ![w] = "idle"]
  /\ UNCHANGED outsideMonitor
  /\ UNCHANGED <<monCfgVars, statVars, slowMethodCount, largeEventCount,
                 monReg, monSize, monCalls>>

\* statHandler.Handle, for the large-event count
StatHandle(eventSize) ==
  /\ Len(statHandled) < MaxStatEvents
  /\ statHandled' = Append(statHandled, eventSize)
  /\ statLargeEvents' =
       IF eventSize > eventSizeThreshold THEN statLargeEvents + 1
       ELSE statLargeEvents
  /\ UNCHANGED outsideMonitor
  /\ UNCHANGED <<monCfgVars, slowMethodCount, largeEventCount, maxEventSize,
                 pcMon, monReg, monSize, monCalls>>

MonitorNext ==
  \/ \E w \in MonWorkers, duration \in Durations : LogSlowMethod(w, duration)
  \/ \E w \in MonWorkers : SlowCountLoad(w)
  \/ \E w \in MonWorkers : SlowCountStore(w)
  \/ \E w \in MonWorkers, eventSize \in EventSizes : CheckEventSize(w, eventSize)
  \/ \E w \in MonWorkers : LargeCountLoad(w)
  \/ \E w \in MonWorkers : LargeCountStore(w)
  \/ \E w \in MonWorkers : MaxSizeTest(w)
  \/ \E w \in MonWorkers : MaxSizeStore(w)
  \/ \E eventSize \in EventSizes : StatHandle(eventSize)

MonitorSpec == MonitorInit /\ [][MonitorNext]_vars

\* the number of calls of a method whose value exceeded the threshold
Exceeding(method, threshold) ==
  Cardinality({i \in DOMAIN monCalls :
                 monCalls[i].method = method /\ monCalls[i].value > threshold})

\* C32: when no call of the monitor is in progress, the slow-method count
\* and the large-event count are the numbers of calls that exceeded the
\* slow threshold and the (positive) size threshold: no increment is lost.
C32_NoLostIncrement ==
  (\A w \in MonWorkers : pcMon[w] = "idle") =>
    /\ slowMethodCount = Exceeding("LogSlowMethod", slowThreshold)
    /\ eventSizeThreshold > 0 =>
         largeEventCount = Exceeding("CheckEventSize", eventSizeThreshold)

\* the oversize rule: the threshold is positive and the length exceeds it
Oversize(eventSize) == eventSizeThreshold > 0 /\ eventSize > eventSizeThreshold

\* C33: a call of CheckEventSize goes on to count the event exactly when
\* the event is oversize, and the large-event count of the stat handler is
\* always the number of oversize events it handled.
C33_OversizeRule ==
  /\ [][(Len(monCalls') > Len(monCalls)
          /\ monCalls'[Len(monCalls')].method = "CheckEventSize") =>
         ((\E w \in MonWorkers : pcMon[w] = "idle" /\ pcMon'[w] = "largeLoad")
            <=> Oversize(monCalls'[Len(monCalls')].value))]_vars
  /\ [](statLargeEvents =
          Cardinality({i \in DOMAIN statHandled : Oversize(statHandled[i])}))


(***************************************************************************)
(* The checkpoint manager (pkg/checkpoint).  Every process has a manager   *)
(* of its own, so m.mu orders only the calls on one manager; the managers  *)
(* meet in the checkpoint directory.  A file is [exists, data]; data is    *)
(* the sequence of the tokens of the JSON document written so far.         *)
(***************************************************************************)
\* number of calls made on one manager
MaxCkOps == 2
\* width of uint32 (32 in the program, scaled down; the hashes of the
\* sources below stay far under either width)
HashBits == 16

\* hashString: h = h*31 + uint32(s[i])
RECURSIVE hashString(_)
hashString(s) ==
  IF s = <<>> THEN 0
  ELSE (hashString(SubSeq(s, 1, Len(s) - 1)) * 31 + Ord(s[Len(s)])) % (2 ^ HashBits)

HexDigits ==
  <<"0","1","2","3","4","5","6","7","8","9","a","b","c","d","e","f">>

\* the %x verb
RECURSIVE Hex(_)
Hex(n) ==
  IF n < 16 THEN <<HexDigits[n + 1]>>
  ELSE Hex(n \div 16) \o <<HexDigits[(n % 16) + 1]>>

\* NewManager(source, "file"): the path of the checkpoint file
NewManager(source) == <<"file_">> \o Hex(hashString(source)) \o <<".json">>

\* the binlog files the commands are run on (names in one directory)
CkSources == {<<"A", "a">>, <<"B", "B">>, <<"C", "c">>}

CkPaths == {NewManager(source) : source \in CkSources}

\* the positions saved
CkPos == {1, 2}

\* json.MarshalIndent(position)
Marshal(position) ==
  << <<"{">>, <<"file: ">> \o position.File, <<"pos: ">> \o Itoa(position.Pos),
     <<"}">> >>

\* json.Unmarshal(data, &pos): [err, pos]
Unmarshal(data) ==
  IF /\ Len(data) = 4
     /\ data[1] = <<"{">>
     /\ data[4] = <<"}">>
     /\ Head(data[2]) = "file: "
     /\ Head(data[3]) = "pos: "
  THEN [err |-> "",
        pos |-> [File |-> Tail(data[2]), Pos |-> DigitsValue(Tail(data[3]))]]
  ELSE [err |-> "failed to unmarshal checkpoint", pos |-> NoPosition]

NoFile == [exists |-> FALSE, data |-> <<>>]

\* the managers of the processes, over an empty checkpoint directory
CheckpointInit ==
  /\ PipelineParked
  /\ CacheParked
  /\ SqlParked
  /\ SourceParked
  /\ MatcherParked
  /\ MonitorParked
  /\ ResumeParked
  /\ ckSource \in [CkManagers -> CkSources]
  /\ ckFiles = [path \in CkPaths |-> NoFile]
  /\ pcCk = [m \in CkManagers |-> "idle"]
  /\ ckData = [m \in CkManagers |-> <<>>]
  /\ ckOffset = [m \in CkManagers |-> 0]
  /\ ckOverlap = FALSE
  /\ ckErr = [m \in CkManagers |-> ""]
  /\ loadResult = [m \in CkManagers |-> NoPosition]
  /\ ckOps = [m \in CkManagers |-> 0]
  /\ lastSaved = [source \in CkSources |-> NoPosition]

filePath(m) == NewManager(ckSource[m])

\* a step of manager m: it overlaps a Save of another manager or not
Overlap(m) ==
  ckOverlap' = (ckOverlap \/ \E o \in CkManagers \ {m} : pcCk[o] \in {"open", "write"})

\* no call is in progress on the manager
CkReady(m) == pcCk[m] \in {"idle", "loaded", "cleared"} /\ ckOps[m] < MaxCkOps

\* Manager.Load
Load(m) ==
  /\ Overlap(m)
  /\ CkReady(m)
  /\ ckOps' = [ckOps EXCEPT ![m] = @ + 1]
  /\ IF ~ckFiles[filePath(m)].exists
     THEN /\ loadResult' = [loadResult EXCEPT ![m] = NoPosition]
          /\ ckErr' = [ckErr EXCEPT ![m] = ""]
     ELSE LET res == Unmarshal(ckFiles[filePath(m)].data) IN
          /\ loadResult' = [loadResult EXCEPT ![m] = res.pos]
          /\ ckErr' = [ckErr EXCEPT ![m] = res.err]
  /\ pcCk' = [pcCk EXCEPT ![m] = "loaded"]
  /\ UNCHANGED outsideCheckpoint
  /\ UNCHANGED <<ckSource, ckFiles, ckData, ckOffset, lastSaved>>

\* Manager.Save up to os.WriteFile: the lock, the position, the marshalling.
\* The file name saved is the base name of the source (lastEvent.LogName).
SaveBegin(m, pos) ==
  /\ Overlap(m)
  /\ CkReady(m)
  /\ ckOps' = [ckOps EXCEPT ![m] = @ + 1]
  /\ ckData' = [ckData EXCEPT ![m] = Marshal([File |-> ckSource[m], Pos |-> pos])]
  /\ pcCk' = [pcCk EXCEPT ![m] = "open"]
  /\ UNCHANGED outsideCheckpoint
  /\ UNCHANGED <<ckSource, ckFiles, ckOffset, ckErr, loadResult, lastSaved>>

\* os.WriteFile: OpenFile with O_WRONLY|O_CREATE|O_TRUNC
SaveOpen(m) ==
  /\ Overlap(m)
  /\ pcCk[m] = "open"
  /\ ckFiles' = [ckFiles EXCEPT ![filePath(m)] = [exists |-> TRUE, data |-> <<>>]]
  /\ ckOffset' = [ckOffset EXCEPT ![m] = 0]
  /\ pcCk' = [pcCk EXCEPT ![m] = "write"]
  /\ UNCHANGED outsideCheckpoint
  /\ UNCHANGED <<ckSource, ckData, ckErr, loadResult, ckOps, lastSaved>>

\* the content of a file after a write of part at offset off: a write past
\* the end leaves a hole of zero bytes
WriteAt(old, off, part) ==
  [i \in 1..(IF off + Len(part) > Len(old) THEN off + Len(part) ELSE Len(old)) |->
     IF i > off /\ i <= off + Len(part) THEN part[i - off]
     ELSE IF i <= Len(old) THEN old[i]
     ELSE <<"\\0">>]

\* os.WriteFile: the next part of the data reaches the file (or, if a Clear
\* has removed the file since it was opened, a file no path leads to);
\* after the last part the file is closed, m.current is set and Save
\* returns nil
SaveWrite(m) ==
  /\ Overlap(m)
  /\ pcCk[m] = "write"
  /\ LET detached == ckOffset[m] = -1
         upto == IF detached \/ ckOffset[m] + 2 >= Len(ckData[m])
                 THEN Len(ckData[m]) ELSE ckOffset[m] + 2
         part == SubSeq(ckData[m], ckOffset[m] + 1, upto)
     IN /\ IF detached THEN UNCHANGED ckFiles
           ELSE ckFiles' = [ckFiles EXCEPT ![filePath(m)] =
                  [exists |-> TRUE,
                   data |-> WriteAt(ckFiles[filePath(m)].data, ckOffset[m], part)]]
        /\ ckOffset' = [ckOffset EXCEPT ![m] = upto]
        /\ IF upto >= Len(ckData[m])
           THEN /\ pcCk' = [pcCk EXCEPT ![m] = "idle"]
                /\ ckErr' = [ckErr EXCEPT ![m] = ""]
                /\ lastSaved' = [lastSaved EXCEPT ![ckSource[m]] =
                                   Unmarshal(ckData[m]).pos]
           ELSE UNCHANGED <<pcCk, ckErr, lastSaved>>
  /\ UNCHANGED outsideCheckpoint
  /\ UNCHANGED <<ckSource, ckData, loadResult, ckOps>>

\* os.WriteFile fails part-way (the disk is full, the process is killed):
\* Save returns the error, or never returns, and the file stays as it is
SaveInterrupted(m) ==
  /\ Overlap(m)
  /\ pcCk[m] = "write"
  /\ pcCk' = [pcCk EXCEPT ![m] = "idle"]
  /\ ckErr' = [ckErr EXCEPT ![m] = "failed to write checkpoint file"]
  /\ UNCHANGED outsideCheckpoint
  /\ UNCHANGED <<ckSource, ckFiles, ckData, ckOffset, loadResult, ckOps,
                 lastSaved>>

\* os.Remove(path): the error and the directory afterwards
Remove(path) ==
  IF ckFiles[path].exists
  THEN [err |-> "", files |-> [ckFiles EXCEPT ![path] = NoFile]]
  ELSE [err |-> "ENOENT", files |-> ckFiles]

\* Manager.Clear
ManagerClear(m) ==
  /\ Overlap(m)
  /\ CkReady(m)
  /\ ckOps' = [ckOps EXCEPT ![m] = @ + 1]
  /\ LET res == Remove(filePath(m)) IN
       /\ ckFiles' = res.files
       /\ ckErr' = [ckErr EXCEPT ![m] =
                      IF res.err # "" /\ res.err # "ENOENT"
                      THEN "failed to remove checkpoint file" ELSE ""]
  /\ lastSaved' = [lastSaved EXCEPT ![ckSource[m]] = NoPosition]
  /\ pcCk' = [pcCk EXCEPT ![m] = "cleared"]
  /\ UNCHANGED outsideCheckpoint
  /\ ckOffset' = [o \in CkManagers |->
                    IF pcCk[o] = "write" /\ filePath(o) = filePath(m) THEN -1
                    ELSE ckOffset[o]]
  /\ UNCHANGED <<ckSource, ckData, loadResult>>

CheckpointNext ==
  \/ \E m \in CkManagers : Load(m)
  \/ \E m \in CkManagers, pos \in CkPos : SaveBegin(m, pos)
  \/ \E m \in CkManagers : SaveOpen(m)
  \/ \E m \in CkManagers : SaveWrite(m)
  \/ \E m \in CkManagers : SaveInterrupted(m)
  \/ \E m \in CkManagers : ManagerClear(m)

CheckpointSpec == CheckpointInit /\ [][CheckpointNext]_vars


\* C35: a Load never fails on the content of the checkpoint file: what it
\* reads is a complete checkpoint, the previous one or the new one, also
\* while a Save of another process is under way or after a Save was
\* interrupted.
C35_SaveIsAtomic ==
  \A m \in CkManagers : ckErr[m] # "failed to unmarshal checkpoint"

\* a call on manager m returns in this step
Returns(m, pc) == ckOps'[m] = ckOps[m] + 1 /\ pcCk'[m] = pc

\* C36: when no call has overlapped a Save, a Load returns without error the
\* position of the last successful Save for the source of its manager, or
\* none if there was no Save or a Clear came after it; a Clear returns
\* without error, with or without a checkpoint.
C36_LoadReturnsLastSave ==
  [][\A m \in CkManagers :
       /\ (Returns(m, "loaded") /\ ~ckOverlap')
            => (ckErr'[m] = "" /\ loadResult'[m] = lastSaved[ckSource[m]])
       /\ Returns(m, "cleared") => ckErr'[m] = ""]_vars


(***************************************************************************)
(* The parse command on an offline file, run twice: the first run is quit  *)
(* by the user or reaches the end of the file, and saves the checkpoint;   *)
(* the second run loads it and the user answers y.  The events of the file *)
(* are numbered by their LogPos, 1..MaxFileEvents.                         *)
(***************************************************************************)
\* number of events in the binlog file
MaxFileEvents == 3

RsWorkerCounts == {1, 2}

ResumeInit ==
  /\ PipelineParked
  /\ CacheParked
  /\ SqlParked
  /\ SourceParked
  /\ MatcherParked
  /\ MonitorParked
  /\ CheckpointParked
  /\ rsWorkers \in RsWorkerCounts
  /\ rsShard \in [1..MaxFileEvents -> 1..2]
  /\ \A i \in 1..MaxFileEvents : rsShard[i] <= rsWorkers
  /\ rsSession = 1
  /\ rsStartPos = 0
  /\ rsNext = 1
  /\ rsChans = [w \in 1..rsWorkers |-> <<>>]
  /\ rsEventChan = <<>>
  /\ rsShown = << <<>>, <<>> >>
  /\ rsLast = 0
  /\ rsCheckpoint = 0
  /\ pcDisplay = "showing"

rsCfgVars == <<rsWorkers, rsShard>>

\* readEvents' onEvent, FileSource.Read and the producer, for the next event
\* of the file: skipped if at or before the start position, else routed to
\* the channel of its worker
RsParse ==
  /\ pcDisplay = "showing"
  /\ rsNext <= MaxFileEvents
  /\ rsNext' = rsNext + 1
  /\ IF rsStartPos > 0 /\ rsNext <= rsStartPos
     THEN UNCHANGED rsChans
     ELSE rsChans' = [rsChans EXCEPT ![rsShard[rsNext]] = Append(@, rsNext)]
  /\ UNCHANGED outsideResume
  /\ UNCHANGED <<rsCfgVars, rsSession, rsStartPos, rsEventChan, rsShown, rsLast,
                 rsCheckpoint, pcDisplay>>

\* a consumer takes an event from its channel; streamParseHandler.Handle
\* sends it to the display
RsHandle(w) ==
  /\ pcDisplay = "showing"
  /\ rsChans[w] # <<>>
  /\ rsChans' = [rsChans EXCEPT ![w] = Tail(@)]
  /\ rsEventChan' = Append(rsEventChan, Head(rsChans[w]))
  /\ UNCHANGED outsideResume
  /\ UNCHANGED <<rsCfgVars, rsSession, rsStartPos, rsNext, rsShown, rsLast,
                 rsCheckpoint, pcDisplay>>

\* displayEventsStreamingInteractive: one turn of the loop
RsDisplay ==
  /\ pcDisplay = "showing"
  /\ rsEventChan # <<>>
  /\ rsEventChan' = Tail(rsEventChan)
  /\ rsShown' = [rsShown EXCEPT ![rsSession] = Append(@, Head(rsEventChan))]
  /\ rsLast' = Head(rsEventChan)
  /\ UNCHANGED outsideResume
  /\ UNCHANGED <<rsCfgVars, rsSession, rsStartPos, rsNext, rsChans,
                 rsCheckpoint, pcDisplay>>

\* the position of the checkpoint file after the loop of the display
SavedAfter == IF rsLast # 0 THEN rsLast ELSE rsCheckpoint

\* after the loop: Save of lastEvent; the first run is followed by the
\* second, which loads the checkpoint and sets the start position
AfterLoop ==
  /\ rsCheckpoint' = SavedAfter
  /\ IF rsSession = 1
     THEN /\ rsSession' = 2
          /\ rsStartPos' = SavedAfter
          /\ rsNext' = 1
          /\ rsChans' = [w \in 1..rsWorkers |-> <<>>]
          /\ rsEventChan' = <<>>
          /\ rsLast' = 0
          /\ UNCHANGED pcDisplay
     ELSE /\ pcDisplay' = "done"
          /\ UNCHANGED <<rsSession, rsStartPos, rsNext, rsChans, rsEventChan,
                         rsLast>>
  /\ UNCHANGED outsideResume
  /\ UNCHANGED <<rsCfgVars, rsShown>>

\* the user answers q at the prompt after an event of the first run
RsQuit ==
  /\ pcDisplay = "showing"
  /\ rsSession = 1
  /\ rsLast # 0
  /\ AfterLoop

\* the channel of the display is closed and empty: the loop ends
RsEnd ==
  /\ pcDisplay = "showing"
  /\ rsNext > MaxFileEvents
  /\ \A w \in 1..rsWorkers : rsChans[w] = <<>>
  /\ rsEventChan = <<>>
  /\ AfterLoop

ResumeNext ==
  \/ RsParse
  \/ \E w \in 1..rsWorkers : RsHandle(w)
  \/ RsDisplay
  \/ RsQuit
  \/ RsEnd

ResumeSpec == ResumeInit /\ [][ResumeNext]_vars

ShownIn(session) == {rsShown[session][i] : i \in DOMAIN rsShown[session]}

\* C34: the run that resumes displays no event the first run displayed,
\* and when it has reached the end of the file every event was displayed
\* in one of the two runs.
C34_ResumeExact ==
  rsSession = 2 =>
    /\ ShownIn(1) \cap ShownIn(2) = {}
    /\ pcDisplay = "done" => ShownIn(1) \cup ShownIn(2) = 1..MaxFileEvents

====
